---- MODULE Spec2Model ----
(***************************************************************************)
(* Model of the scalability-test TCP server (guimsk/Client-Test).          *)
(*                                                                         *)
(* The concurrency engine is modelled on applications/servidor-c/app.c:    *)
(* the accept loop of main, the per-connection thread tratar_cliente, the  *)
(* statistics thread thread_stats and the signal handler.  Every shared    *)
(* variable of that file is a variable here.  A statement that reads or    *)
(* writes shared state is a step of its own; a critical section is entered *)
(* by its first statement (which waits for the mutex) and left by its last *)
(* one, and statements that touch only the thread's own state (close of    *)
(* its socket, free, sleep, return) belong to the step before them.        *)
(*                                                                         *)
(* Where another variant of the server differs in what a property is about *)
(* it has a specification of its own: the worker of app_configurable.c     *)
(* (ConfSpec), the JSON handling of app_simple.cpp (SimpleSpec), the       *)
(* plain-text exchange of app_cjson.c (TextSpec) and its batched message   *)
(* count (BatchSpec), the JSON server of app_cjson.c (CjsonSpec) and the   *)
(* server of app_configurable.cpp (CppSpec).  CodecSpec and ProtoSpec run  *)
(* the framing and the JSON handling of app.c on enumerated inputs,        *)
(* PaceSpec its adaptive pause, and PeakSpec runs app.c with one client    *)
(* more than are being served.  JsonSpec is the server of app_json.cpp,    *)
(* FrameSpec the framing of app_old.cpp and app_configurable.cpp, LockSpec *)
(* the order in which the threads take the two mutexes, and HandleSpec the *)
(* accept loop of app_cjson.c that keeps an array of thread handles.       *)
(***************************************************************************)
EXTENDS Integers, Sequences, FiniteSets, TLC

(***************************************************************************)
(* Bounds of the model.                                                    *)
(***************************************************************************)
\* #define MAX_CONNECTIONS 2000 (app.c:20), scaled down so that the ceiling
\* is reached; the model is parametric in it.
MAX_CONNECTIONS == 1
\* number of accept() calls that return in one run, with a socket or failing
MaxAccepts == 2
\* number of requests the clients send in one run
MaxMsgs == 2

\* thread slots: the worker spawned for the k-th counted client runs in slot k
Workers == 1..MaxAccepts

VARIABLES
    servidor_rodando,     \* volatile int servidor_rodando      (app.c:25)
    clientes_conectados,  \* volatile int clientes_conectados   (app.c:26)
    total_connections,    \* server_stats.total_connections     (app.c:32)
    total_messages,       \* server_stats.total_messages        (app.c:33)
    active_threads,       \* server_stats.active_threads        (app.c:34)
    peak_connections,     \* server_stats.peak_connections      (app.c:35)
    errors,               \* server_stats.errors                (app.c:36)
    stats_mutex,          \* holder of stats_mutex              (app.c:27)
    client_counter,       \* int client_counter of main         (app.c:339)
    apc,                  \* position of main (acceptor, then shutdown tail)
    spc,                  \* position of thread_stats
    wpc,                  \* position of each tratar_cliente thread
    messages_from_client, \* per worker: int messages_from_client (app.c:188)
    partial,              \* per worker: a length prefix is on the wire, its payload is not
    responses,            \* history, per worker: responses written in full
    listening,            \* the listening socket socket_servidor is open
    accepted,             \* history: sockets returned by accept()
    accept_errors,        \* history: failed accept() calls
    rejected,             \* history: sockets closed by the ceiling check
    spawned,              \* history: successful pthread_create calls for clients
    completed,            \* history: workers that ran line 264 (active_threads--)
    abnormal_ends         \* history: message loops ended by a framing error,
                          \* a receive timeout or a failed write

svars == << servidor_rodando, clientes_conectados, total_connections,
            total_messages, active_threads, peak_connections, errors,
            stats_mutex, client_counter, apc, spc, wpc,
            messages_from_client, partial, responses, listening, accepted,
            accept_errors, rejected, spawned, completed, abnormal_ends >>

Free      == << "free" >>
WorkerTid(w) == << "worker", w >>

\* the process is alive until main returns (app.c:416); the detached client
\* threads and the statistics thread die with it
ProcessAlive == apc # "exited"

(***************************************************************************)
(* Statements of the code, one operator each.                              *)
(***************************************************************************)
\* app.c:179  server_stats.total_connections++
RegisterTotal(n) == n + 1
\* app.c:180  server_stats.active_threads++
RegisterActive(n) == n + 1
\* app.c:181  if (clientes_conectados > server_stats.peak_connections)
PeakExceeded(cc, peak) == cc > peak
\* the exit bookkeeping with its decrement left out
ExitActive_NoDecrement(n) == n
\* app.c:264  server_stats.active_threads--
ExitActive(n) == n - 1
\* the exit bookkeeping taking the connection off the counter twice
ExitConnected_Twice(n) == n - 2
\* app.c:260  clientes_conectados--
ExitConnected(n) == n - 1
\* the ceiling test letting one connection more through
CeilingReached_Late(cc) == cc > MAX_CONNECTIONS
\* app.c:359  if (clientes_conectados >= MAX_CONNECTIONS)
CeilingReached(cc) == cc >= MAX_CONNECTIONS

\* app.c:368  client_counter++ (app_cjson.c:379  ++client_counter): the
\* identifier of the next client.  The variant hands out 1 again.
NextClientId_Reused(n) == IF n >= 1 THEN 1 ELSE n + 1

NextClientId(n) == n + 1

\* app.c:360-362  printf; close(socket_cliente); continue: the rejecting
\* branch goes back to the head of the accept loop.  The variant falls
\* through to the counting statement of app.c:366.
AfterReject_FallsThrough == "a_count"

AfterReject == "a_loop"
\* the handler flipping the flag instead of clearing it
SetShutdown_Toggle(flag) == 1 - flag
\* app.c:51  servidor_rodando = 0
SetShutdown(flag) == 0
\* app.c:342  while (servidor_rodando)
AcceptLoopRuns(flag) == flag # 0
\* a worker loop that never looks at the flag
WorkerLoopRuns_Always(flag) == TRUE
\* app.c:196  while (servidor_rodando)
WorkerLoopRuns(flag) == flag # 0
\* the worker going back to receive once a request is read
AfterReceive_ReadOn == "w_loop"
\* app.c:205-232  a request read is answered next: the response is built
AfterReceive == "w_build"
\* a socket with no receive timeout, whose client neither sends nor closes
ReceiveEnds_None == {}
\* app.c:200-203  the ends receive_json_message reports as -1
ReceiveEnds == {"eof", "framing", "timeout"}
\* an end other than the peer closing the stream
IsAbnormal(cause) == cause # "eof"

ServerInit ==
    /\ servidor_rodando = 1
    /\ clientes_conectados = 0
    /\ total_connections = 0
    /\ total_messages = 0
    /\ active_threads = 0
    /\ peak_connections = 0
    /\ errors = 0
    /\ stats_mutex = Free
    /\ client_counter = 0
    /\ apc = "a_loop"
    /\ spc = "s_loop"
    /\ wpc = [w \in Workers |-> "idle"]
    /\ messages_from_client = [w \in Workers |-> 0]
    /\ partial = [w \in Workers |-> FALSE]
    /\ responses = [w \in Workers |-> 0]
    /\ listening = TRUE
    /\ accepted = 0
    /\ accept_errors = 0
    /\ rejected = 0
    /\ spawned = 0
    /\ completed = 0
    /\ abnormal_ends = 0

stats == << total_connections, total_messages, active_threads,
           peak_connections, errors >>
hist  == << accepted, accept_errors, rejected, spawned, completed,
           abnormal_ends >>
wvars == << wpc, messages_from_client, partial, responses >>

(***************************************************************************)
(* signal_handler, app.c:49-52.                                            *)
(***************************************************************************)
\* a signal may arrive at any time and any number of times
SignalHandler ==
    /\ ProcessAlive
    /\ servidor_rodando' = SetShutdown(servidor_rodando)
    /\ UNCHANGED << clientes_conectados, stats, stats_mutex, client_counter,
                    apc, spc, wvars, listening, hist >>

(***************************************************************************)
(* main: the accept loop, app.c:342-400.                                   *)
(***************************************************************************)
\* app.c:342  while (servidor_rodando); when it ends, app.c:402-405 (sleep(2))
AcceptLoop ==
    /\ apc = "a_loop"
    /\ apc' = IF AcceptLoopRuns(servidor_rodando) THEN "a_accept" ELSE "m_join"
    /\ UNCHANGED << servidor_rodando, clientes_conectados, stats, stats_mutex,
                    client_counter, spc, wvars, listening, hist >>

\* app.c:346  accept() returns a socket: a client connected
AcceptReturns ==
    /\ apc = "a_accept"
    /\ listening
    /\ accepted + accept_errors < MaxAccepts
    /\ accepted' = accepted + 1
    /\ apc' = "a_check"
    /\ UNCHANGED << servidor_rodando, clientes_conectados, stats, stats_mutex,
                    client_counter, spc, wvars, listening, accept_errors,
                    rejected, spawned, completed,
                    abnormal_ends >>

\* app.c:346  accept() returns -1 (ECONNABORTED, EMFILE, ...)
AcceptFails ==
    /\ apc = "a_accept"
    /\ accepted + accept_errors < MaxAccepts
    /\ accept_errors' = accept_errors + 1
    /\ apc' = "a_err"
    /\ UNCHANGED << servidor_rodando, clientes_conectados, stats, stats_mutex,
                    client_counter, spc, wvars, listening, accepted,
                    rejected, spawned, completed,
                    abnormal_ends >>

\* app.c:348-349  if (socket_cliente < 0) { if (servidor_rodando) ... continue; }
AcceptErrorTest ==
    /\ apc = "a_err"
    /\ apc' = IF servidor_rodando # 0 THEN "a_err_count" ELSE "a_loop"
    /\ UNCHANGED << servidor_rodando, clientes_conectados, stats, stats_mutex,
                    client_counter, spc, wvars, listening, hist >>

\* app.c:351-355  lock(stats_mutex); server_stats.errors++; unlock; continue
AcceptErrorCount ==
    /\ apc = "a_err_count"
    /\ stats_mutex = Free
    /\ errors' = errors + 1
    /\ apc' = "a_loop"
    /\ UNCHANGED << servidor_rodando, clientes_conectados, total_connections,
                    total_messages, active_threads, peak_connections,
                    stats_mutex, client_counter, spc, wvars, listening, hist >>

\* app.c:358-363  the ceiling check; a rejected socket is closed at once
CeilingCheck ==
    /\ apc = "a_check"
    /\ IF CeilingReached(clientes_conectados)
          THEN /\ rejected' = rejected + 1
               /\ apc' = AfterReject
          ELSE /\ rejected' = rejected
               /\ apc' = "a_count"
    /\ UNCHANGED << servidor_rodando, clientes_conectados, stats, stats_mutex,
                    client_counter, spc, wvars, listening, accepted,
                    accept_errors, spawned, completed,
                    abnormal_ends >>

\* app.c:366-369  lock(connection_mutex); clientes_conectados++;
\* client_counter++; unlock.  Every write of clientes_conectados is a
\* single statement under connection_mutex (app.c:260, 367, 377, 393).
CountClient ==
    /\ apc = "a_count"
    /\ clientes_conectados' = clientes_conectados + 1
    /\ client_counter' = NextClientId(client_counter)
    /\ apc' = "a_malloc"
    /\ UNCHANGED << servidor_rodando, stats, stats_mutex, spc, wvars,
                    listening, hist >>

\* app.c:372-375  malloc(sizeof(ClientData)); on NULL the socket is closed
AllocClientData ==
    /\ apc = "a_malloc"
    /\ \E ok \in BOOLEAN : apc' = IF ok THEN "a_create" ELSE "a_undo"
    /\ UNCHANGED << servidor_rodando, clientes_conectados, stats, stats_mutex,
                    client_counter, spc, wvars, listening, hist >>

\* app.c:382-399  pthread_create(tratar_cliente) and pthread_detach; on
\* failure the socket is closed and client_data freed
CreateThread ==
    /\ apc = "a_create"
    /\ \E ok \in BOOLEAN :
          IF ok
             THEN /\ wpc' = [wpc EXCEPT ![client_counter] = "w_register"]
                  /\ spawned' = spawned + 1
                  /\ apc' = "a_loop"
             ELSE /\ wpc' = wpc
                  /\ spawned' = spawned
                  /\ apc' = "a_undo"
    /\ UNCHANGED << servidor_rodando, clientes_conectados, stats, stats_mutex,
                    client_counter, spc, messages_from_client, partial,
                    responses,
                    listening, accepted, accept_errors, rejected, completed,
                    abnormal_ends >>

\* app.c:376-379 and 392-395  lock(connection_mutex); clientes_conectados--;
\* unlock; continue
UndoCount ==
    /\ apc = "a_undo"
    /\ clientes_conectados' = clientes_conectados - 1
    /\ apc' = "a_loop"
    /\ UNCHANGED << servidor_rodando, stats, stats_mutex, client_counter, spc,
                    wvars, listening, hist >>

(***************************************************************************)
(* main: the shutdown tail, app.c:402-416.                                 *)
(***************************************************************************)
\* app.c:408  pthread_join(stats_thread, NULL)
JoinStats ==
    /\ apc = "m_join"
    /\ spc = "s_done"
    /\ apc' = "m_close"
    /\ UNCHANGED << servidor_rodando, clientes_conectados, stats, stats_mutex,
                    client_counter, spc, wvars, listening, hist >>

\* app.c:410  close(socket_servidor)
CloseListening ==
    /\ apc = "m_close"
    /\ listening' = FALSE
    /\ apc' = "m_print"
    /\ UNCHANGED << servidor_rodando, clientes_conectados, stats, stats_mutex,
                    client_counter, spc, wvars, hist >>

\* app.c:413-416  print_stats() under stats_mutex, then return 0: the
\* process exits, whatever its threads are doing
MainReturn ==
    /\ apc = "m_print"
    /\ stats_mutex = Free
    /\ apc' = "exited"
    /\ UNCHANGED << servidor_rodando, clientes_conectados, stats, stats_mutex,
                    client_counter, spc, wvars, listening, hist >>

(***************************************************************************)
(* thread_stats, app.c:274-282, and print_stats, app.c:54-60.              *)
(***************************************************************************)
\* app.c:275-277  while (servidor_rodando) { sleep(10); if (servidor_rodando)
\* The flag only ever goes from 1 to 0, so the second read after the sleep
\* finding it cleared is the first read of the next iteration finding it so.
StatsLoop ==
    /\ ProcessAlive
    /\ spc = "s_loop"
    /\ spc' = IF servidor_rodando # 0 THEN "s_print" ELSE "s_done"
    /\ UNCHANGED << servidor_rodando, clientes_conectados, stats, stats_mutex,
                    client_counter, apc, wvars, listening, hist >>

\* app.c:55-59  lock(stats_mutex); the five counters are read; unlock
StatsPrint ==
    /\ ProcessAlive
    /\ spc = "s_print"
    /\ stats_mutex = Free
    /\ spc' = "s_loop"
    /\ UNCHANGED << servidor_rodando, clientes_conectados, stats, stats_mutex,
                    client_counter, apc, wvars, listening, hist >>

(***************************************************************************)
(* tratar_cliente, app.c:152-272.                                          *)
(***************************************************************************)
\* app.c:178-180  lock(stats_mutex); total_connections++; active_threads++.
\* Both fields are read and written only under stats_mutex (app.c:55-59,
\* 178-184, 263-265), so the two increments are one step.
Register(w) ==
    /\ ProcessAlive
    /\ wpc[w] = "w_register"
    /\ stats_mutex = Free
    /\ stats_mutex' = WorkerTid(w)
    /\ total_connections' = RegisterTotal(total_connections)
    /\ active_threads' = RegisterActive(active_threads)
    /\ wpc' = [wpc EXCEPT ![w] = "w_peak_test"]
    /\ UNCHANGED << servidor_rodando, clientes_conectados, total_messages,
                    peak_connections, errors, client_counter, apc, spc,
                    messages_from_client, partial, responses,
                    listening, hist >>

\* app.c:181  if (clientes_conectados > server_stats.peak_connections):
\* clientes_conectados is read here without connection_mutex; when the test
\* fails, app.c:184 unlock(stats_mutex)
PeakTest(w) ==
    /\ ProcessAlive
    /\ wpc[w] = "w_peak_test"
    /\ IF PeakExceeded(clientes_conectados, peak_connections)
          THEN /\ wpc' = [wpc EXCEPT ![w] = "w_peak_store"]
               /\ stats_mutex' = stats_mutex
          ELSE /\ wpc' = [wpc EXCEPT ![w] = "w_loop"]
               /\ stats_mutex' = Free
    /\ UNCHANGED << servidor_rodando, clientes_conectados, stats,
                    client_counter, apc, spc, messages_from_client, partial,
                    responses, listening, hist >>

\* app.c:182-184  server_stats.peak_connections = clientes_conectados (a
\* second read of the volatile counter); unlock(stats_mutex)
PeakStore(w) ==
    /\ ProcessAlive
    /\ wpc[w] = "w_peak_store"
    /\ peak_connections' = clientes_conectados
    /\ stats_mutex' = Free
    /\ wpc' = [wpc EXCEPT ![w] = "w_loop"]
    /\ UNCHANGED << servidor_rodando, clientes_conectados, total_connections,
                    total_messages, active_threads, errors, client_counter,
                    apc, spc, messages_from_client, partial, responses,
                    listening, hist >>

\* app.c:196  while (servidor_rodando); when it ends, app.c:256 close(socket_cliente)
WorkerLoop(w) ==
    /\ ProcessAlive
    /\ wpc[w] = "w_loop"
    /\ wpc' = [wpc EXCEPT ![w] =
                  IF WorkerLoopRuns(servidor_rodando) THEN "w_recv" ELSE "w_uncount"]
    /\ UNCHANGED << servidor_rodando, clientes_conectados, stats, stats_mutex,
                    client_counter, apc, spc, messages_from_client, partial,
                    responses, listening, hist >>

\* app.c:198-228  a request arrives: messages_from_client++, the atomic
\* __sync_add_and_fetch(&server_stats.total_messages, 1), the request is
\* parsed and response_data chosen
ReceiveRequest(w) ==
    /\ ProcessAlive
    /\ wpc[w] = "w_recv"
    /\ total_messages < MaxMsgs
    /\ messages_from_client' =
          [messages_from_client EXCEPT ![w] = messages_from_client[w] + 1]
    /\ total_messages' = total_messages + 1
    /\ wpc' = [wpc EXCEPT ![w] = AfterReceive]
    /\ UNCHANGED << servidor_rodando, clientes_conectados, total_connections,
                    active_threads, peak_connections, errors, stats_mutex,
                    client_counter, apc, spc, partial, responses,
                    listening, hist >>

\* app.c:231-232 and 104-108  create_json_response: snprintf reads
\* clientes_conectados and server_stats.total_messages, plain reads with no
\* mutex held
BuildResponse(w) ==
    /\ ProcessAlive
    /\ wpc[w] = "w_build"
    /\ wpc' = [wpc EXCEPT ![w] = "w_send_size"]
    /\ UNCHANGED << servidor_rodando, clientes_conectados, stats, stats_mutex,
                    client_counter, apc, spc, messages_from_client, partial,
                    responses, listening, hist >>

\* app.c:198-203 and 256  receive_json_message returns -1, whatever the
\* cause (end of stream, a framing error or the 30 s receive timeout):
\* break; close(socket_cliente)
ReceiveFails(w) ==
    /\ ProcessAlive
    /\ wpc[w] = "w_recv"
    /\ wpc' = [wpc EXCEPT ![w] = "w_uncount"]
    /\ \E cause \in ReceiveEnds :
          abnormal_ends' = abnormal_ends + (IF IsAbnormal(cause) THEN 1 ELSE 0)
    /\ UNCHANGED << servidor_rodando, clientes_conectados, stats, stats_mutex,
                    client_counter, apc, spc, messages_from_client, partial,
                    responses, listening, accepted,
                    accept_errors, rejected, spawned, completed >>

\* app.c:141-145  send() of the 4-byte length prefix; on a short send
\* app.c:235-236 break and app.c:256 close(socket_cliente)
SendSize(w) ==
    /\ ProcessAlive
    /\ wpc[w] = "w_send_size"
    /\ \E ok \in BOOLEAN :
          IF ok
             THEN /\ partial' = [partial EXCEPT ![w] = TRUE]
                  /\ wpc' = [wpc EXCEPT ![w] = "w_send_body"]
                  /\ abnormal_ends' = abnormal_ends
             ELSE /\ partial' = partial
                  /\ wpc' = [wpc EXCEPT ![w] = "w_uncount"]
                  /\ abnormal_ends' = abnormal_ends + 1
    /\ UNCHANGED << servidor_rodando, clientes_conectados, stats, stats_mutex,
                    client_counter, apc, spc, messages_from_client,
                    responses, listening, accepted,
                    accept_errors, rejected, spawned, completed >>

\* app.c:148-149 and 235-253  send() of the payload; on success the pacing
\* usleep and the next iteration, on a short send break and close
SendBody(w) ==
    /\ ProcessAlive
    /\ wpc[w] = "w_send_body"
    /\ \E ok \in BOOLEAN :
          IF ok
             THEN /\ partial' = [partial EXCEPT ![w] = FALSE]
                  /\ responses' = [responses EXCEPT ![w] = responses[w] + 1]
                  /\ wpc' = [wpc EXCEPT ![w] = "w_loop"]
                  /\ abnormal_ends' = abnormal_ends
             ELSE /\ partial' = partial
                  /\ responses' = responses
                  /\ wpc' = [wpc EXCEPT ![w] = "w_uncount"]
                  /\ abnormal_ends' = abnormal_ends + 1
    /\ UNCHANGED << servidor_rodando, clientes_conectados, stats, stats_mutex,
                    client_counter, apc, spc, messages_from_client,
                    listening, accepted,
                    accept_errors, rejected, spawned, completed >>

\* app.c:259-261  lock(connection_mutex); clientes_conectados--; unlock
Uncount(w) ==
    /\ ProcessAlive
    /\ wpc[w] = "w_uncount"
    /\ clientes_conectados' = ExitConnected(clientes_conectados)
    /\ wpc' = [wpc EXCEPT ![w] = "w_exit_stats"]
    /\ UNCHANGED << servidor_rodando, stats, stats_mutex, client_counter, apc,
                    spc, messages_from_client, partial, responses,
                    listening, hist >>

\* app.c:263-271  lock(stats_mutex); server_stats.active_threads--; unlock;
\* free(client_data); return NULL
ExitStats(w) ==
    /\ ProcessAlive
    /\ wpc[w] = "w_exit_stats"
    /\ stats_mutex = Free
    /\ active_threads' = ExitActive(active_threads)
    /\ completed' = completed + 1
    /\ wpc' = [wpc EXCEPT ![w] = "w_done"]
    /\ UNCHANGED << servidor_rodando, clientes_conectados, total_connections,
                    total_messages, peak_connections, errors, stats_mutex,
                    client_counter, apc, spc, messages_from_client, partial,
                    responses, listening, accepted, accept_errors,
                    rejected, spawned,
                    abnormal_ends >>

\* the steps of main
MainStep ==
    \/ AcceptLoop \/ AcceptErrorTest \/ AcceptErrorCount \/ CeilingCheck
    \/ CountClient \/ AllocClientData \/ CreateThread \/ UndoCount
    \/ JoinStats \/ CloseListening \/ MainReturn

\* the steps of the statistics thread
StatsStep == StatsLoop \/ StatsPrint

\* the steps of one client thread
WorkerStep(w) ==
    \/ Register(w) \/ PeakTest(w) \/ PeakStore(w) \/ WorkerLoop(w)
    \/ ReceiveRequest(w) \/ BuildResponse(w) \/ ReceiveFails(w)
    \/ SendSize(w) \/ SendBody(w)
    \/ Uncount(w) \/ ExitStats(w)

(***************************************************************************)
(* tratar_cliente of app_configurable.c, lines 78-168: the worker registers *)
(* in one critical section and reconsiders the peak in another            *)
(* (update_peak_connections, lines 62-68), and it counts receive and send  *)
(* errors.  main, print_stats and the exit bookkeeping of that file        *)
(* (lines 54-60, 153-161, 248-312) are those of app.c statement for        *)
(* statement, and thread_stats (lines 70-76) prints after every sleep.     *)
(***************************************************************************)
\* app_configurable.c:119-132  the ways recv() ends the loop: 0 bytes, -1
\* with EAGAIN or EWOULDBLOCK (the receive timeout), -1 with another errno
ConfReceiveEnds == {"eof", "timeout", "error"}
\* every end of recv() counted as an error
ConfCountsError_Always(cause) == TRUE
\* app_configurable.c:123  if (errno != EAGAIN && errno != EWOULDBLOCK)
ConfCountsError(cause) == cause = "error"

\* app_configurable.c:85-88  lock(stats_mutex); total_connections++;
\* active_threads++; unlock(stats_mutex)
ConfRegister(w) ==
    /\ ProcessAlive
    /\ wpc[w] = "w_register"
    /\ stats_mutex = Free
    /\ total_connections' = RegisterTotal(total_connections)
    /\ active_threads' = RegisterActive(active_threads)
    /\ wpc' = [wpc EXCEPT ![w] = "c_peak_test"]
    /\ UNCHANGED << servidor_rodando, clientes_conectados, total_messages,
                    peak_connections, errors, stats_mutex, client_counter,
                    apc, spc, messages_from_client, partial, responses,
                    listening, hist >>

\* app_configurable.c:63-64 and 67  update_peak_connections: lock(stats_mutex);
\* if (clientes_conectados > server_stats.peak_connections); when the test
\* fails, unlock(stats_mutex)
ConfPeakTest(w) ==
    /\ ProcessAlive
    /\ wpc[w] = "c_peak_test"
    /\ stats_mutex = Free
    /\ IF PeakExceeded(clientes_conectados, peak_connections)
          THEN /\ wpc' = [wpc EXCEPT ![w] = "c_peak_store"]
               /\ stats_mutex' = WorkerTid(w)
          ELSE /\ wpc' = [wpc EXCEPT ![w] = "c_loop"]
               /\ stats_mutex' = Free
    /\ UNCHANGED << servidor_rodando, clientes_conectados, stats,
                    client_counter, apc, spc, messages_from_client, partial,
                    responses, listening, hist >>

\* app_configurable.c:65-67  server_stats.peak_connections =
\* clientes_conectados; unlock(stats_mutex)
ConfPeakStore(w) ==
    /\ ProcessAlive
    /\ wpc[w] = "c_peak_store"
    /\ peak_connections' = clientes_conectados
    /\ stats_mutex' = Free
    /\ wpc' = [wpc EXCEPT ![w] = "c_loop"]
    /\ UNCHANGED << servidor_rodando, clientes_conectados, total_connections,
                    total_messages, active_threads, errors, client_counter,
                    apc, spc, messages_from_client, partial, responses,
                    listening, hist >>

\* app_configurable.c:109  while (servidor_rodando); when it ends, line 151
\* close(socket_cliente)
ConfLoop(w) ==
    /\ ProcessAlive
    /\ wpc[w] = "c_loop"
    /\ wpc' = [wpc EXCEPT ![w] =
                  IF WorkerLoopRuns(servidor_rodando) THEN "c_recv" ELSE "w_uncount"]
    /\ UNCHANGED << servidor_rodando, clientes_conectados, stats, stats_mutex,
                    client_counter, apc, spc, messages_from_client, partial,
                    responses, listening, hist >>

\* app_configurable.c:113-139  recv() returns data; lock(stats_mutex);
\* server_stats.total_messages++; unlock(stats_mutex)
ConfReceive(w) ==
    /\ ProcessAlive
    /\ wpc[w] = "c_recv"
    /\ total_messages < MaxMsgs
    /\ stats_mutex = Free
    /\ total_messages' = total_messages + 1
    /\ messages_from_client' =
          [messages_from_client EXCEPT ![w] = messages_from_client[w] + 1]
    /\ wpc' = [wpc EXCEPT ![w] = "c_send"]
    /\ UNCHANGED << servidor_rodando, clientes_conectados, total_connections,
                    active_threads, peak_connections, errors, stats_mutex,
                    client_counter, apc, spc, partial, responses, listening,
                    hist >>

\* app_configurable.c:115-131  recv() returns 0 or -1: break, after
\* server_stats.errors++ when errno is neither EAGAIN nor EWOULDBLOCK
ConfReceiveFails(w) ==
    /\ ProcessAlive
    /\ wpc[w] = "c_recv"
    /\ \E cause \in ConfReceiveEnds :
          /\ wpc' = [wpc EXCEPT ![w] =
                        IF ConfCountsError(cause) THEN "c_error" ELSE "w_uncount"]
          /\ abnormal_ends' = abnormal_ends + (IF IsAbnormal(cause) THEN 1 ELSE 0)
    /\ UNCHANGED << servidor_rodando, clientes_conectados, stats, stats_mutex,
                    client_counter, apc, spc, messages_from_client, partial,
                    responses, listening, accepted, accept_errors, rejected,
                    spawned, completed >>

\* app_configurable.c:141-148  send() of the response in one call; when it
\* returns <= 0 the error is counted and the loop ends
ConfSend(w) ==
    /\ ProcessAlive
    /\ wpc[w] = "c_send"
    /\ \E ok \in BOOLEAN :
          IF ok
             THEN /\ responses' = [responses EXCEPT ![w] = responses[w] + 1]
                  /\ wpc' = [wpc EXCEPT ![w] = "c_loop"]
                  /\ abnormal_ends' = abnormal_ends
             ELSE /\ responses' = responses
                  /\ wpc' = [wpc EXCEPT ![w] = "c_error"]
                  /\ abnormal_ends' = abnormal_ends + 1
    /\ UNCHANGED << servidor_rodando, clientes_conectados, stats, stats_mutex,
                    client_counter, apc, spc, messages_from_client, partial,
                    listening, accepted, accept_errors, rejected, spawned,
                    completed >>

\* app_configurable.c:124-126 and 144-146  lock(stats_mutex);
\* server_stats.errors++; unlock(stats_mutex); break; line 151 close
ConfCountError(w) ==
    /\ ProcessAlive
    /\ wpc[w] = "c_error"
    /\ stats_mutex = Free
    /\ errors' = errors + 1
    /\ wpc' = [wpc EXCEPT ![w] = "w_uncount"]
    /\ UNCHANGED << servidor_rodando, clientes_conectados, total_connections,
                    total_messages, active_threads, peak_connections,
                    stats_mutex, client_counter, apc, spc,
                    messages_from_client, partial, responses, listening,
                    hist >>

\* the steps of one client thread of app_configurable.c
ConfWorkerStep(w) ==
    \/ ConfRegister(w) \/ ConfPeakTest(w) \/ ConfPeakStore(w) \/ ConfLoop(w)
    \/ ConfReceive(w) \/ ConfReceiveFails(w) \/ ConfSend(w)
    \/ ConfCountError(w) \/ Uncount(w) \/ ExitStats(w)

(***************************************************************************)
(* The framing codec of app.c: receive_message_size, receive_json_message  *)
(* and send_json_message, as functions of the bytes on the stream.         *)
(*                                                                         *)
(* A byte is a number in 0..255.  A uint32_t is the pair of its 16-bit     *)
(* halves, so that the full 32-bit range of a declared length is covered.  *)
(***************************************************************************)
\* #define BUFFER_SIZE 4096
BUFFER_SIZE == 4096
\* longest payload of the round-trip runs that is enumerated byte by byte
MaxPayloadLen == 3

U32(hi, lo) == [hi |-> hi, lo |-> lo]
U32IsZero(x) == x.hi = 0 /\ x.lo = 0
\* x >= n for a uint32_t x and a size n below 2^31
U32Ge(x, n) == \/ x.hi > n \div 65536
               \/ x.hi = n \div 65536 /\ x.lo >= n % 65536
\* x > n, likewise
U32Gt(x, n) == \/ x.hi > n \div 65536
               \/ x.hi = n \div 65536 /\ x.lo > n % 65536
\* the value of a uint32_t that is known to be below 2^31
U32Value(x) == x.hi * 65536 + x.lo

\* ntohl(size): the four bytes as received, most significant first
ntohl(b) == U32(b[1] * 256 + b[2], b[3] * 256 + b[4])
\* htonl(n) as it lies in memory and goes on the wire, for a length n < 2^31
htonl(n) == << (n \div 16777216) % 256, (n \div 65536) % 256,
               (n \div 256) % 256, n % 256 >>

\* strlen(message): the bytes before the first zero byte
strlen(s) ==
    LET zeros == { i \in 1..Len(s) : s[i] = 0 }
    IN  IF zeros = {} THEN Len(s)
        ELSE (CHOOSE i \in zeros : \A j \in zeros : i <= j) - 1

\* recv(socket, &size, 4, MSG_WAITALL) and ntohl; a short read yields 0
receive_message_size(stream) ==
    IF Len(stream) < 4
       THEN [size |-> U32(0, 0), consumed |-> Len(stream)]
       ELSE [size |-> ntohl(SubSeq(stream, 1, 4)), consumed |-> 4]

\* the length test with > in the place of >=
LengthRejected_OffByOne(message_size, buffer_size) ==
    U32IsZero(message_size) \/ U32Gt(message_size, buffer_size)
\* if (message_size == 0 || message_size >= buffer_size) return -1;
LengthRejected(message_size, buffer_size) ==
    U32IsZero(message_size) \/ U32Ge(message_size, buffer_size)

\* receive_json_message(socket, buffer, buffer_size): the value returned, the
\* bytes taken from the stream, the bytes stored in buffer (the terminating
\* zero at buffer[message_size] included)
receive_json_message(stream, buffer_size) ==
    LET r == receive_message_size(stream)
    IN  IF LengthRejected(r.size, buffer_size)
           THEN [ret |-> -1, consumed |-> r.consumed, buffer |-> << >>]
           ELSE LET n == U32Value(r.size)
                    avail == Len(stream) - 4
                IN  IF avail < n
                       THEN [ret |-> -1, consumed |-> Len(stream),
                             buffer |-> SubSeq(stream, 5, Len(stream))]
                       ELSE [ret |-> n, consumed |-> 4 + n,
                             buffer |-> SubSeq(stream, 5, 4 + n) \o << 0 >>]

\* send_json_message(socket, message) when both send() calls succeed: the
\* bytes put on the wire.  message is a C string: its length is strlen.
send_json_message(message) ==
    LET message_len == strlen(message)
    IN  htonl(message_len) \o SubSeq(message, 1, message_len)

VARIABLES
    cx_payload,   \* the payload handed to send_json_message
    cx_stream,    \* the bytes on the wire, as the reader finds them
    cx_result,    \* what receive_json_message returned
    cx_pc         \* "write", "read", "returned", "closed" or "process"

cvars == << cx_payload, cx_stream, cx_result, cx_pc >>

NoResult == [ret |-> 0, consumed |-> 0, buffer |-> << >>]

Fill(n, b) == [i \in 1..n |-> b]
PayloadBytes == {0, 65, 66}
SeqsUpTo(S, n) == UNION { [1..k -> S] : k \in 0..n }
\* payloads of the round-trip runs: every short sequence over three byte
\* values, zero among them, and the lengths around BUFFER_SIZE
Payloads ==
    SeqsUpTo(PayloadBytes, MaxPayloadLen)
      \cup { Fill(n, 65) : n \in {BUFFER_SIZE - 2, BUFFER_SIZE - 1, BUFFER_SIZE} }
\* length prefixes of the raw-frame runs, as the four bytes on the wire
Prefixes ==
    { htonl(n) : n \in {0, 1, 2, 255, 256, BUFFER_SIZE - 2, BUFFER_SIZE - 1,
                        BUFFER_SIZE, BUFFER_SIZE + 1, 65536, 16777216} }
      \cup { << 128, 0, 0, 0 >>, << 255, 255, 255, 255 >>, << 0, 1, 0, 1 >> }
\* a raw frame: a prefix followed by as many payload bytes as it declares
\* (as far as that is below 2^16), by one byte less, or by nothing
Declared(prefix) == U32Value(ntohl(prefix))
RawFrames ==
    { pre \o Fill(n, 66) :
        pre \in { q \in Prefixes : q[1] = 0 /\ q[2] = 0 },
        n \in {0} }
      \cup { pre \o Fill(Declared(pre), 66) :
               pre \in { q \in Prefixes : q[1] = 0 /\ q[2] = 0 } }
      \cup { pre \o Fill(Declared(pre) - 1, 66) :
               pre \in { q \in Prefixes : q[1] = 0 /\ q[2] = 0 /\ Declared(q) > 1 } }
      \cup { pre \o Fill(8, 66) : pre \in Prefixes }
      \cup { << >>, << 0, 0 >> }

CodecInit ==
    \/ /\ cx_pc = "write"
       /\ cx_payload \in Payloads
       /\ cx_stream = << >>
       /\ cx_result = NoResult
    \/ /\ cx_pc = "read"
       /\ cx_payload = << >>
       /\ cx_stream \in RawFrames
       /\ cx_result = NoResult

\* app.c:137-150  the writer puts the frame of cx_payload on the wire
CodecWrite ==
    /\ cx_pc = "write"
    /\ cx_stream' = send_json_message(cx_payload)
    /\ cx_pc' = "read"
    /\ UNCHANGED << cx_payload, cx_result >>

\* app.c:198  int message_len = receive_json_message(socket_cliente, buffer, BUFFER_SIZE)
CodecRead ==
    /\ cx_pc = "read"
    /\ cx_result' = receive_json_message(cx_stream, BUFFER_SIZE)
    /\ cx_pc' = "returned"
    /\ UNCHANGED << cx_payload, cx_stream >>

\* app.c:200-203 and 256  if (message_len <= 0) break; ... close(socket_cliente)
CodecWorker ==
    /\ cx_pc = "returned"
    /\ cx_pc' = IF cx_result.ret <= 0 THEN "closed" ELSE "process"
    /\ UNCHANGED << cx_payload, cx_stream, cx_result >>

CodecIdle ==
    /\ cx_pc = "idle"
    /\ cx_payload = << >>
    /\ cx_stream = << >>
    /\ cx_result = NoResult

(***************************************************************************)
(* The JSON handling of app.c: extract_json_value, strtoll, the dispatch   *)
(* on tipo and create_json_response.  A C string is the sequence of its    *)
(* characters, each a one-character string; the terminating zero is the    *)
(* end of the sequence.                                                    *)
(***************************************************************************)
\* sizeof(tipo_buffer), sizeof(data_buffer), sizeof(timestamp_buffer)
TIPO_BUFFER_SIZE == 256
DATA_BUFFER_SIZE == 256
TIMESTAMP_BUFFER_SIZE == 64
\* longest data string of a request that is enumerated character by character
MaxDataLen == 2
\* number of requests the client sends on its connection
MaxRequests == 2

Quote == "\""
Backslash == "\\"
\* what *pos reads at the terminating zero
NUL == "NUL"

\* the string literals of the source
KEY_tipo == << "t", "i", "p", "o" >>
KEY_data == << "d", "a", "t", "a" >>
KEY_timestamp == << "t", "i", "m", "e", "s", "t", "a", "m", "p" >>
STR_PING == << "P", "I", "N", "G" >>
STR_ECHO == << "E", "C", "H", "O" >>
STR_STATS == << "S", "T", "A", "T", "S" >>
STR_PONG == << "P", "O", "N", "G" >>
STR_SERVER_STATS == << "S", "E", "R", "V", "E", "R", "_", "S", "T", "A", "T", "S" >>
STR_ACK == << "A", "C", "K" >>
STR_UNKNOWN == << "U", "N", "K", "N", "O", "W", "N" >>
\* the pieces of the format string of create_json_response between its
\* conversions: ... %lld ... %lld ... %d ... %s ... %d ... %lld ...
FMT_1 == << "{", "\"", "t", "i", "p", "o", "\"", ":", "\"", "R", "E", "S", "P", "O", "N", "S", "E", "\"", ",", "\"", "s", "e", "r", "v", "e", "r", "_", "t", "i", "m", "e", "s", "t", "a", "m", "p", "\"", ":" >>
FMT_2 == << ",", "\"", "c", "l", "i", "e", "n", "t", "_", "t", "i", "m", "e", "s", "t", "a", "m", "p", "\"", ":" >>
FMT_3 == << ",", "\"", "m", "e", "s", "s", "a", "g", "e", "_", "i", "d", "\"", ":" >>
FMT_4 == << ",", "\"", "d", "a", "t", "a", ":", "\"" >>
FMT_5 == << "\"", ",", "\"", "s", "e", "r", "v", "e", "r", "_", "s", "t", "a", "t", "s", "\"", ":", "{", "\"", "a", "c", "t", "i", "v", "e", "_", "c", "o", "n", "n", "e", "c", "t", "i", "o", "n", "s", "\"", ":" >>
FMT_6 == << ",", "\"", "t", "o", "t", "a", "l", "_", "m", "e", "s", "s", "a", "g", "e", "s", "\"", ":" >>
FMT_7 == << "}", "}" >>

SetMin(S) == CHOOSE i \in S : \A j \in S : i <= j
CharAt(s, i) == IF i <= Len(s) THEN s[i] ELSE NUL
\* the first n characters of s (strncpy of n characters, then the zero)
Prefix(s, n) == IF Len(s) > n THEN SubSeq(s, 1, n) ELSE s

\* strstr(hay + from - 1, needle): where needle first occurs at or after
\* from, 0 for NULL
strstr(hay, needle, from) ==
    LET hits == { i \in from..(Len(hay) - Len(needle) + 1) :
                    SubSeq(hay, i, i + Len(needle) - 1) = needle }
    IN  IF hits = {} THEN 0 ELSE SetMin(hits)

NullValue == [null |-> TRUE, val |-> << >>]
Value(s) == [null |-> FALSE, val |-> s]

\* extract_json_value(json, key, buffer, buffer_size): NULL, or the buffer
extract_json_value(json, key, buffer_size) ==
    LET search_key == << Quote >> \o key \o << Quote, ":" >>
        found == strstr(json, search_key, 1)
    IN  IF found = 0 THEN NullValue
        ELSE
          LET after == found + Len(search_key)
              pos == SetMin({ i \in after..(Len(json) + 1) :
                                CharAt(json, i) \notin {" ", "\t"} })
          IN  IF CharAt(json, pos) = Quote
                 THEN LET end_pos == strstr(json, << Quote >>, pos + 1)
                      IN  IF end_pos = 0 THEN NullValue
                          ELSE Value(Prefix(SubSeq(json, pos + 1, end_pos - 1),
                                            buffer_size - 1))
                 ELSE LET end_pos ==
                            SetMin({ i \in pos..(Len(json) + 1) :
                                       CharAt(json, i) \in {NUL, ",", "}"} })
                      IN  Value(Prefix(SubSeq(json, pos, end_pos - 1),
                                       buffer_size - 1))

DigitChars == << "0", "1", "2", "3", "4", "5", "6", "7", "8", "9" >>
IsDigit(c) == \E d \in 1..10 : DigitChars[d] = c
DigitValue(c) == (CHOOSE d \in 1..10 : DigitChars[d] = c) - 1

RECURSIVE DecimalValue(_, _, _)
\* the value of the digits of s from index i on, acc being the value so far
DecimalValue(s, i, acc) ==
    IF IsDigit(CharAt(s, i))
       THEN DecimalValue(s, i + 1, acc * 10 + DigitValue(s[i]))
       ELSE acc

\* strtoll(s, NULL, 10) for values that fit: leading white space, a sign,
\* then the digits up to the first other character; 0 when there is none
strtoll(s) ==
    LET first == SetMin({ i \in 1..(Len(s) + 1) :
                            CharAt(s, i) \notin {" ", "\t"} })
        signed == CharAt(s, first) \in {"-", "+"}
        magnitude == DecimalValue(s, IF signed THEN first + 1 ELSE first, 0)
    IN  IF CharAt(s, first) = "-" THEN 0 - magnitude ELSE magnitude

RECURSIVE Digits(_)
Digits(n) ==
    IF n < 10 THEN << DigitChars[n + 1] >>
    ELSE Digits(n \div 10) \o << DigitChars[(n % 10) + 1] >>
\* the %d and %lld conversions of snprintf
FormatInt(n) == IF n < 0 THEN << "-" >> \o Digits(0 - n) ELSE Digits(n)

\* create_json_response(buffer, buffer_size, tipo, data, timestamp,
\* message_id): the text snprintf leaves in buffer
create_json_response(buffer_size, tipo, data, timestamp, message_id, server_timestamp, active_connections, messages) ==
    Prefix(FMT_1 \o FormatInt(server_timestamp)
             \o FMT_2 \o FormatInt(timestamp)
             \o FMT_3 \o FormatInt(message_id)
             \o FMT_4 \o data
             \o FMT_5 \o FormatInt(active_connections)
             \o FMT_6 \o FormatInt(messages)
             \o FMT_7,
           buffer_size - 1)

\* long long timestamp = 0; if (timestamp_str) timestamp = strtoll(...)
ParseTimestamp(timestamp_str) ==
    IF timestamp_str.null THEN 0 ELSE strtoll(timestamp_str.val)

\* a message_id that does not follow the count of messages
MessageId_First(messages) == 1
\* app.c:205 and 232  messages_from_client++ on receipt, passed as
\* message_id
MessageId(messages) == messages

\* the choice of response_data: strcmp on tipo, first match taken
ResponseData(tipo, data) ==
    IF ~tipo.null /\ tipo.val = STR_PING THEN STR_PONG
    ELSE IF ~tipo.null /\ tipo.val = STR_ECHO
            THEN (IF data.null THEN STR_ECHO ELSE data.val)
    ELSE IF ~tipo.null /\ tipo.val = STR_STATS THEN STR_SERVER_STATS
    ELSE STR_ACK

(***************************************************************************)
(* The requests a client sends: a JSON object with the type member under   *)
(* the name the client uses, an optional data string and an optional       *)
(* timestamp, rendered as JSON text.                                       *)
(***************************************************************************)
KEY_type == << "t", "y", "p", "e" >>
STR_HELLO == << "H", "E", "L", "L", "O" >>
STR_ping == << "p", "i", "n", "g" >>
STR_soon == << "s", "o", "o", "n" >>
NoData == << "absent" >>
NoTimestamp == 0 - 1
\* a timestamp member that is not a number
BadTimestamp == 0 - 2
DataChars == {"a", Quote, Backslash}
DataStrings ==
    SeqsUpTo(DataChars, MaxDataLen)
      \cup { Fill(n, "a") : n \in {DATA_BUFFER_SIZE - 1, DATA_BUFFER_SIZE} }
Requests ==
    [key : {KEY_type, KEY_tipo},
     tipo : {STR_PING, STR_ECHO, STR_STATS, STR_HELLO, STR_ping},
     data : {NoData} \cup DataStrings,
     timestamp : {NoTimestamp, BadTimestamp, 0, 7, 1000}]

\* one character as it stands inside a JSON string
JsonEscapeChar(c) ==
    IF c \in {Quote, Backslash} THEN << Backslash, c >> ELSE << c >>
RECURSIVE JsonEscape(_)
\* the characters of s as they stand inside a JSON string
JsonEscape(s) ==
    IF s = << >> THEN << >>
    ELSE IF Len(s) = 1 THEN JsonEscapeChar(s[1])
    ELSE JsonEscape(SubSeq(s, 1, Len(s) \div 2))
           \o JsonEscape(SubSeq(s, Len(s) \div 2 + 1, Len(s)))
JsonString(s) == << Quote >> \o JsonEscape(s) \o << Quote >>

\* the timestamp member as the client writes it
TimestampText(timestamp) ==
    IF timestamp = BadTimestamp THEN JsonString(STR_soon)
    ELSE FormatInt(timestamp)

\* the JSON text of a request
RequestText(req) ==
    << "{" >> \o JsonString(req.key) \o << ":" >> \o JsonString(req.tipo)
      \o (IF req.data = NoData THEN << >>
          ELSE << "," >> \o JsonString(KEY_data) \o << ":" >> \o JsonString(req.data))
      \o (IF req.timestamp = NoTimestamp THEN << >>
          ELSE << "," >> \o JsonString(KEY_timestamp) \o << ":" >>
                 \o TimestampText(req.timestamp))
      \o << "}" >>

VARIABLES
    pr_req,       \* the request of the client
    pr_buffer,    \* buffer: the request text as received
    pr_parsed,    \* tipo, data and timestamp as extracted
    pr_response,  \* response_buffer as sent
    pr_clock,     \* the value clock_gettime gives, in milliseconds
    pr_count,     \* messages_from_client
    pr_errors,    \* server_stats.errors as this worker leaves it
    pr_pc         \* "recv", "parse", "respond", "sent" or "closed"

pvars == << pr_req, pr_buffer, pr_parsed, pr_response, pr_clock, pr_count,
            pr_errors, pr_pc >>

NotParsed == [tipo |-> NullValue, data |-> NullValue, timestamp |-> 0]
NoRequest == [key |-> << >>, tipo |-> << >>, data |-> NoData,
              timestamp |-> NoTimestamp]

ProtoInit ==
    /\ pr_pc = "recv"
    /\ pr_req \in Requests
    /\ pr_buffer = << >>
    /\ pr_parsed = NotParsed
    /\ pr_response = << >>
    /\ pr_clock \in {1700000000}
    /\ pr_count = 0
    /\ pr_errors = 0

\* app.c:198-205  the request arrives in buffer; messages_from_client++
ProtoReceive ==
    /\ pr_pc = "recv"
    /\ pr_buffer' = RequestText(pr_req)
    /\ pr_count' = pr_count + 1
    /\ pr_pc' = "parse"
    /\ UNCHANGED << pr_req, pr_parsed, pr_response, pr_clock, pr_errors >>

\* app.c:209-216  tipo, data, timestamp_str extracted, timestamp converted
ProtoParse ==
    /\ pr_pc = "parse"
    /\ pr_parsed' =
         [tipo |-> extract_json_value(pr_buffer, KEY_tipo, TIPO_BUFFER_SIZE),
          data |-> extract_json_value(pr_buffer, KEY_data, DATA_BUFFER_SIZE),
          timestamp |-> ParseTimestamp(
              extract_json_value(pr_buffer, KEY_timestamp, TIMESTAMP_BUFFER_SIZE))]
    /\ pr_pc' = "respond"
    /\ UNCHANGED << pr_req, pr_buffer, pr_response, pr_clock, pr_count,
                    pr_errors >>

\* app.c:218-237  response_data chosen, the response built and sent; this is
\* the only connection, so that its messages are all the messages
ProtoRespond ==
    /\ pr_pc = "respond"
    /\ pr_response' =
         create_json_response(BUFFER_SIZE,
             IF pr_parsed.tipo.null THEN STR_UNKNOWN ELSE pr_parsed.tipo.val,
             ResponseData(pr_parsed.tipo, pr_parsed.data),
             pr_parsed.timestamp, MessageId(pr_count), pr_clock, 1, pr_count)
    /\ pr_pc' = "sent"
    /\ UNCHANGED << pr_req, pr_buffer, pr_parsed, pr_clock, pr_count,
                    pr_errors >>

\* app.c:196-198  the loop comes back to receive_json_message and the
\* client sends its next request
ProtoNextMessage ==
    /\ pr_pc = "sent"
    /\ pr_count < MaxRequests
    /\ pr_req' \in Requests
    /\ pr_buffer' = << >>
    /\ pr_parsed' = NotParsed
    /\ pr_response' = << >>
    /\ pr_pc' = "recv"
    /\ UNCHANGED << pr_clock, pr_count, pr_errors >>

(***************************************************************************)
(* The JSON handling of app_simple.cpp, lines 52-95 and 171-236: the same  *)
(* exchange on std::string, with std::stoll for the timestamp and a catch  *)
(* clause around the handling of a message.                                *)
(***************************************************************************)
SIMPLE_FMT_4 == << ",", "\"", "d", "a", "t", "a", "\"", ":", "\"" >>

\* app_simple.cpp:71-95  extract_json_value(json, key): the value, or the
\* empty string
simple_extract_json_value(json, key) ==
    LET search_key == << Quote >> \o key \o << Quote, ":" >>
        found == strstr(json, search_key, 1)
    IN  IF found = 0 THEN << >>
        ELSE
          LET after == found + Len(search_key)
              pos == SetMin({ i \in after..(Len(json) + 1) :
                                CharAt(json, i) \notin {" ", "\t"} })
          IN  IF pos > Len(json) THEN << >>
              ELSE IF json[pos] = Quote
                 THEN LET end_pos == strstr(json, << Quote >>, pos + 1)
                      IN  IF end_pos = 0 THEN << >>
                          ELSE SubSeq(json, pos + 1, end_pos - 1)
                 ELSE LET end_pos ==
                            SetMin({ i \in pos..(Len(json) + 1) :
                                       CharAt(json, i) \in {NUL, ",", "}"} })
                      IN  SubSeq(json, pos, end_pos - 1)

\* std::stoll(s) throws std::invalid_argument when, after white space and a
\* sign, s has no digit to convert
stoll_throws(s) ==
    LET first == SetMin({ i \in 1..(Len(s) + 1) :
                            CharAt(s, i) \notin {" ", "\t"} })
        signed == CharAt(s, first) \in {"-", "+"}
    IN  ~IsDigit(CharAt(s, IF signed THEN first + 1 ELSE first))

\* app_simple.cpp:52-68  create_json_response(tipo, data, timestamp,
\* message_id): the text of the stream
simple_create_json_response(tipo, data, timestamp, message_id, server_timestamp, active_connections, messages) ==
    FMT_1 \o FormatInt(server_timestamp)
      \o FMT_2 \o FormatInt(timestamp)
      \o FMT_3 \o FormatInt(message_id)
      \o SIMPLE_FMT_4 \o data
      \o FMT_5 \o FormatInt(active_connections)
      \o FMT_6 \o FormatInt(messages)
      \o FMT_7

\* app_simple.cpp:195-204  the choice of response_data
SimpleResponseData(tipo, data) ==
    IF tipo = STR_PING THEN STR_PONG
    ELSE IF tipo = STR_ECHO THEN data
    ELSE IF tipo = STR_STATS THEN STR_SERVER_STATS
    ELSE STR_ACK

\* app_simple.cpp:173-181  the request arrives; messages_from_client++
SimpleReceive ==
    /\ pr_pc = "recv"
    /\ pr_buffer' = RequestText(pr_req)
    /\ pr_count' = pr_count + 1
    /\ pr_pc' = "parse"
    /\ UNCHANGED << pr_req, pr_parsed, pr_response, pr_clock, pr_errors >>

\* app_simple.cpp:183-192 and 230-234  tipo, data and timestamp_str
\* extracted, the timestamp converted; when std::stoll throws, the catch
\* clause runs server_stats.errors++ and break, and line 244 closes the
\* socket
SimpleParse ==
    /\ pr_pc = "parse"
    /\ LET tipo == simple_extract_json_value(pr_buffer, KEY_tipo)
           data == simple_extract_json_value(pr_buffer, KEY_data)
           timestamp_str == simple_extract_json_value(pr_buffer, KEY_timestamp)
       IN  IF timestamp_str # << >> /\ stoll_throws(timestamp_str)
              THEN /\ pr_errors' = pr_errors + 1
                   /\ pr_pc' = "closed"
                   /\ pr_parsed' = pr_parsed
              ELSE /\ pr_errors' = pr_errors
                   /\ pr_pc' = "respond"
                   /\ pr_parsed' =
                        [tipo |-> Value(tipo), data |-> Value(data),
                         timestamp |-> IF timestamp_str = << >> THEN 0
                                       ELSE strtoll(timestamp_str)]
    /\ UNCHANGED << pr_req, pr_buffer, pr_response, pr_clock, pr_count >>

\* app_simple.cpp:195-212  response_data chosen, the response built and
\* sent; this is the only connection
SimpleRespond ==
    /\ pr_pc = "respond"
    /\ pr_response' =
         simple_create_json_response(pr_parsed.tipo.val,
             SimpleResponseData(pr_parsed.tipo.val, pr_parsed.data.val),
             pr_parsed.timestamp, MessageId(pr_count), pr_clock, 1, pr_count)
    /\ pr_pc' = "sent"
    /\ UNCHANGED << pr_req, pr_buffer, pr_parsed, pr_clock, pr_count,
                    pr_errors >>

ProtoIdle ==
    /\ pr_pc = "idle"
    /\ pr_req = NoRequest
    /\ pr_buffer = << >>
    /\ pr_parsed = NotParsed
    /\ pr_response = << >>
    /\ pr_clock = 0
    /\ pr_count = 0
    /\ pr_errors = 0

(***************************************************************************)
(* The plain-text exchange of app_cjson.c, lines 413-467: one recv into    *)
(* buffer, the choice among the three responses, the send.                *)
(***************************************************************************)
\* longest tail of a command that is enumerated character by character
MaxTextLen == 2

STR_PING_DASH == << "P", "I", "N", "G", "-" >>
STR_PONG_DASH == << "P", "O", "N", "G", "-" >>
STR_ACK_DASH == << "A", "C", "K", "-" >>
STR_PIN == << "P", "I", "N" >>

\* snprintf(resposta, size, ...): at most size - 1 characters are kept
snprintf(size, text) == Prefix(text, size - 1)

\* app_cjson.c:414-415 and 429  recv(socket_cliente, buffer, BUFFER_SIZE - 1,
\* 0) and the terminating zero
recv(sent) == Prefix(sent, BUFFER_SIZE - 1)

\* app_cjson.c:438-464  resposta as the three branches leave it
resposta(buffer, timestamp) ==
    IF strstr(buffer, STR_PING_DASH, 1) = 1
       THEN snprintf(BUFFER_SIZE,
                     STR_PONG_DASH \o SubSeq(buffer, 6, Len(buffer)))
    ELSE IF strstr(buffer, STR_PING, 1) = 1
       THEN snprintf(BUFFER_SIZE,
                     STR_PONG_DASH \o buffer \o << "-" >> \o FormatInt(timestamp))
    ELSE snprintf(BUFFER_SIZE, STR_ACK_DASH \o buffer)

\* the commands a client sends: a head, a short tail, and the two longest
\* commands one recv takes whole
TextChars == {"1", "-", "x"}
TextHeads == {STR_PING_DASH, STR_PING, STR_PIN, STR_HELLO}
Commands ==
    { head \o tail : head \in TextHeads, tail \in SeqsUpTo(TextChars, MaxTextLen) }
      \cup { STR_PING_DASH \o Fill(BUFFER_SIZE - 1 - Len(STR_PING_DASH), "1"),
             STR_PING \o Fill(BUFFER_SIZE - 1 - Len(STR_PING), "1") }

VARIABLES
    tx_command,   \* the command of the client
    tx_buffer,    \* buffer after recv
    tx_resposta,  \* resposta as sent
    tx_clock,     \* the value clock_gettime gives, in milliseconds
    tx_pc         \* "recv", "respond" or "sent"

tvars == << tx_command, tx_buffer, tx_resposta, tx_clock, tx_pc >>

TextInit ==
    /\ tx_pc = "recv"
    /\ tx_command \in Commands
    /\ tx_buffer = << >>
    /\ tx_resposta = << >>
    /\ tx_clock = 1700000000

\* app_cjson.c:414-430  the command arrives in buffer
TextReceive ==
    /\ tx_pc = "recv"
    /\ tx_buffer' = recv(tx_command)
    /\ tx_pc' = "respond"
    /\ UNCHANGED << tx_command, tx_resposta, tx_clock >>

\* app_cjson.c:437-467  resposta built and sent
TextRespond ==
    /\ tx_pc = "respond"
    /\ tx_resposta' = resposta(tx_buffer, tx_clock)
    /\ tx_pc' = "sent"
    /\ UNCHANGED << tx_command, tx_buffer, tx_clock >>

TextIdle ==
    /\ tx_pc = "idle"
    /\ tx_command = << >>
    /\ tx_buffer = << >>
    /\ tx_resposta = << >>
    /\ tx_clock = 0

(***************************************************************************)
(* The message accounting of the plain-text worker of app_cjson.c, lines   *)
(* 414-497: total_messages is updated at the first message, at every       *)
(* hundredth, and once more when the worker leaves.                        *)
(***************************************************************************)
\* number of messages one client sends
MaxBatchMessages == 101
\* app_cjson.c:477, 479, 494  the batch of the accounting
BATCH == 100

\* app_cjson.c:477-485  what a message adds to server_stats.total_messages
CountedAfter(messages_from_client_) ==
    IF messages_from_client_ % BATCH = 0 THEN BATCH
    ELSE IF messages_from_client_ = 1 THEN 1
    ELSE 0

\* app_cjson.c:494-496  what the exit adds to server_stats.total_messages
CountedAtExit(messages_from_client_) ==
    IF messages_from_client_ % BATCH # 0
       THEN (messages_from_client_ % BATCH) - 1
       ELSE 0

VARIABLES
    bt_messages,     \* int messages_from_client of the worker
    bt_total,        \* what the worker has added to server_stats.total_messages
    bt_send_failed,  \* history: a send() of the worker failed
    bt_pc            \* "recv", "send", "count", "exit" or "done"

bvars == << bt_messages, bt_total, bt_send_failed, bt_pc >>

BatchInit ==
    /\ bt_messages = 0
    /\ bt_total = 0
    /\ bt_send_failed = FALSE
    /\ bt_pc = "recv"

\* app_cjson.c:416-431  recv() returns data; messages_from_client++
BatchReceive ==
    /\ bt_pc = "recv"
    /\ bt_messages < MaxBatchMessages
    /\ bt_messages' = bt_messages + 1
    /\ bt_pc' = "send"
    /\ UNCHANGED << bt_total, bt_send_failed >>

\* app_cjson.c:414-427  the loop ends: recv() returns 0 or -1, or the
\* shutdown flag is found cleared
BatchLoopEnds ==
    /\ bt_pc = "recv"
    /\ bt_pc' = "exit"
    /\ UNCHANGED << bt_messages, bt_total, bt_send_failed >>

\* app_cjson.c:469-474  send(); break when it fails
BatchSend ==
    /\ bt_pc = "send"
    /\ \E ok \in BOOLEAN :
          /\ bt_pc' = IF ok THEN "count" ELSE "exit"
          /\ bt_send_failed' = (bt_send_failed \/ ~ok)
    /\ UNCHANGED << bt_messages, bt_total >>

\* app_cjson.c:476-485  the update of total_messages under stats_mutex
BatchCount ==
    /\ bt_pc = "count"
    /\ bt_total' = bt_total + CountedAfter(bt_messages)
    /\ bt_pc' = "recv"
    /\ UNCHANGED << bt_messages, bt_send_failed >>

\* app_cjson.c:488-497  close; active_threads--; the final adjustment of
\* total_messages under stats_mutex
BatchExit ==
    /\ bt_pc = "exit"
    /\ bt_total' = bt_total + CountedAtExit(bt_messages)
    /\ bt_pc' = "done"
    /\ UNCHANGED << bt_messages, bt_send_failed >>

BatchIdle ==
    /\ bt_messages = 0
    /\ bt_total = 0
    /\ bt_send_failed = FALSE
    /\ bt_pc = "idle"

(***************************************************************************)
(* The adaptive pause of app.c, lines 239-253, after each response.        *)
(***************************************************************************)
\* number of messages of the connection that is followed
MaxPaceMessages == 1002
\* app.c:244-252  the thresholds and the arguments of usleep
HIGH_MESSAGES == 1000
MEDIUM_MESSAGES == 100
LOW_MESSAGES == 10
LONG_DURATION == 60
HIGH_PAUSE == 5
MEDIUM_PAUSE == 10
LOW_PAUSE == 20

\* app.c:244-253  the microseconds passed to usleep, 0 when it is not called
usleep(messages_from_client_, connection_duration) ==
    IF messages_from_client_ > HIGH_MESSAGES \/ connection_duration > LONG_DURATION
       THEN HIGH_PAUSE
    ELSE IF messages_from_client_ > MEDIUM_MESSAGES THEN MEDIUM_PAUSE
    ELSE IF messages_from_client_ > LOW_MESSAGES THEN LOW_PAUSE
    ELSE 0

VARIABLES
    pa_messages,   \* int messages_from_client of the worker
    pa_duration,   \* connection_duration, in seconds
    pa_pause,      \* the pause after the latest response
    pa_previous,   \* history: the pause after the response before it
    pa_pc          \* "respond" or "pause"

avars == << pa_messages, pa_duration, pa_pause, pa_previous, pa_pc >>

PaceInit ==
    /\ pa_messages = 0
    /\ pa_duration \in {0, LONG_DURATION, LONG_DURATION + 1}
    /\ pa_pause = 0
    /\ pa_previous = 0
    /\ pa_pc = "respond"

\* app.c:198-237  a request is received and answered: messages_from_client++
PaceRespond ==
    /\ pa_pc = "respond"
    /\ pa_messages < MaxPaceMessages
    /\ pa_messages' = pa_messages + 1
    /\ pa_pc' = "pause"
    /\ UNCHANGED << pa_duration, pa_pause, pa_previous >>

\* app.c:239-253  the pause after the response
PacePause ==
    /\ pa_pc = "pause"
    /\ pa_pause' = usleep(pa_messages, pa_duration)
    /\ pa_previous' = pa_pause
    /\ pa_pc' = "respond"
    /\ UNCHANGED << pa_messages, pa_duration >>

PaceIdle ==
    /\ pa_messages = 0
    /\ pa_duration = 0
    /\ pa_pause = 0
    /\ pa_previous = 0
    /\ pa_pc = "idle"

(***************************************************************************)
(* The server of app_cjson.c: main, app_cjson.c:293-409, and               *)
(* tratarCliente, app_cjson.c:125-281.  Its statistics thread              *)
(* (app_cjson.c:282-291), its signal handler (app_cjson.c:50-54), the head *)
(* of its accept loop (app_cjson.c:349) and its shutdown tail              *)
(* (app_cjson.c:394-408) are the statements of app.c and are modelled by   *)
(* the same actions; the tail has no sleep before the join.                *)
(***************************************************************************)
\* the thread limit of app_cjson.c:22, 100 in the source
MAX_THREADS == 1

\* app_cjson.c:363  if (server_stats.active_threads >= MAX_THREADS)
ThreadLimitReached(active) == active >= MAX_THREADS

\* app_cjson.c:355-360  if (socket_cliente < 0) { if (servidor_rodando)
\* perror(...); continue; }: the error is printed and nothing is counted
CjsonAcceptError ==
    /\ apc = "a_err"
    /\ apc' = "a_loop"
    /\ UNCHANGED << servidor_rodando, clientes_conectados, stats, stats_mutex,
                    client_counter, spc, wvars, listening, hist >>

\* app_cjson.c:363-367  the thread-limit check, a read of active_threads
\* without stats_mutex; a rejected socket is closed at once
CjsonThreadLimit ==
    /\ apc = "a_check"
    /\ IF ThreadLimitReached(active_threads)
          THEN /\ rejected' = rejected + 1
               /\ apc' = "a_loop"
          ELSE /\ rejected' = rejected
               /\ apc' = "a_malloc"
    /\ UNCHANGED << servidor_rodando, clientes_conectados, stats, stats_mutex,
                    client_counter, spc, wvars, listening, accepted,
                    accept_errors, spawned, completed, abnormal_ends >>

\* app_cjson.c:370-379  malloc(sizeof(ClientData)); on NULL the socket is
\* closed; otherwise client_data->client_id = ++client_counter
CjsonAllocClientData ==
    /\ apc = "a_malloc"
    /\ \E ok \in BOOLEAN :
          IF ok
             THEN /\ client_counter' = NextClientId(client_counter)
                  /\ apc' = "a_create"
             ELSE /\ client_counter' = client_counter
                  /\ apc' = "a_loop"
    /\ UNCHANGED << servidor_rodando, clientes_conectados, stats, stats_mutex,
                    spc, wvars, listening, hist >>

\* app_cjson.c:382-391  pthread_create(tratarCliente); on failure
\* free(client_data), close and continue; on success pthread_detach
CjsonCreateThread ==
    /\ apc = "a_create"
    /\ \E ok \in BOOLEAN :
          IF ok
             THEN /\ wpc' = [wpc EXCEPT ![client_counter] = "j_register"]
                  /\ spawned' = spawned + 1
             ELSE /\ wpc' = wpc
                  /\ spawned' = spawned
    /\ apc' = "a_loop"
    /\ UNCHANGED << servidor_rodando, clientes_conectados, stats, stats_mutex,
                    client_counter, spc, messages_from_client, partial,
                    responses, listening, accepted, accept_errors, rejected,
                    completed, abnormal_ends >>

\* app_cjson.c:150-153  lock(stats_mutex); total_connections++;
\* active_threads++; unlock
CjsonRegister(w) ==
    /\ ProcessAlive
    /\ wpc[w] = "j_register"
    /\ stats_mutex = Free
    /\ total_connections' = total_connections + 1
    /\ active_threads' = active_threads + 1
    /\ wpc' = [wpc EXCEPT ![w] = "j_connect"]
    /\ UNCHANGED << servidor_rodando, clientes_conectados, total_messages,
                    peak_connections, errors, stats_mutex, client_counter,
                    apc, spc, messages_from_client, partial, responses,
                    listening, hist >>

\* app_cjson.c:155-160  lock(connection_mutex); clientes_conectados++; the
\* peak is raised when the counter is above it; unlock.  Every access of
\* either variable by a worker is under connection_mutex.
CjsonConnect(w) ==
    /\ ProcessAlive
    /\ wpc[w] = "j_connect"
    /\ clientes_conectados' = clientes_conectados + 1
    /\ peak_connections' =
          IF clientes_conectados + 1 > peak_connections
             THEN clientes_conectados + 1 ELSE peak_connections
    /\ wpc' = [wpc EXCEPT ![w] = "j_loop"]
    /\ UNCHANGED << servidor_rodando, total_connections, total_messages,
                    active_threads, errors, stats_mutex, client_counter,
                    apc, spc, messages_from_client, partial, responses,
                    listening, hist >>

\* app_cjson.c:169  while (servidor_rodando); when it ends,
\* app_cjson.c:259 close(socket_cliente)
CjsonLoop(w) ==
    /\ ProcessAlive
    /\ wpc[w] = "j_loop"
    /\ wpc' = [wpc EXCEPT ![w] =
                  IF servidor_rodando # 0 THEN "j_recv" ELSE "j_close"]
    /\ UNCHANGED << servidor_rodando, clientes_conectados, stats, stats_mutex,
                    client_counter, apc, spc, messages_from_client, partial,
                    responses, listening, hist >>

\* app_cjson.c:171-182  receive_json_message returns NULL: break; or a
\* message: messages_from_client++ and cJSON_Parse, which fails on a
\* payload that is not JSON
CjsonReceive(w) ==
    /\ ProcessAlive
    /\ wpc[w] = "j_recv"
    /\ \E got \in {"nothing", "garbled", "json"} :
          IF got = "nothing"
             THEN /\ messages_from_client' = messages_from_client
                  /\ wpc' = [wpc EXCEPT ![w] = "j_close"]
             ELSE /\ messages_from_client[w] < MaxMsgs
                  /\ messages_from_client' =
                        [messages_from_client EXCEPT ![w] = messages_from_client[w] + 1]
                  /\ wpc' = [wpc EXCEPT ![w] =
                                IF got = "json" THEN "j_send" ELSE "j_parse_error"]
    /\ UNCHANGED << servidor_rodando, clientes_conectados, stats, stats_mutex,
                    client_counter, apc, spc, partial, responses, listening,
                    hist >>

\* app_cjson.c:183-187  lock(stats_mutex); errors++; unlock; continue, and
\* app_cjson.c:233-243  the same count after a failed send, then break
CjsonCountError(w) ==
    /\ ProcessAlive
    /\ wpc[w] \in {"j_parse_error", "j_send_error"}
    /\ stats_mutex = Free
    /\ errors' = errors + 1
    /\ wpc' = [wpc EXCEPT ![w] =
                  IF wpc[w] = "j_parse_error" THEN "j_loop" ELSE "j_close"]
    /\ UNCHANGED << servidor_rodando, clientes_conectados, total_connections,
                    total_messages, active_threads, peak_connections,
                    stats_mutex, client_counter, apc, spc,
                    messages_from_client, partial, responses, listening,
                    hist >>

\* app_cjson.c:190-233  the response object is built and serialised, and
\* send_json_response (app_cjson.c:112-123) writes it with one send()
CjsonSend(w) ==
    /\ ProcessAlive
    /\ wpc[w] = "j_send"
    /\ \E ok \in BOOLEAN :
          IF ok
             THEN /\ responses' = [responses EXCEPT ![w] = responses[w] + 1]
                  /\ wpc' = [wpc EXCEPT ![w] = "j_count"]
             ELSE /\ responses' = responses
                  /\ wpc' = [wpc EXCEPT ![w] = "j_send_error"]
    /\ UNCHANGED << servidor_rodando, clientes_conectados, stats, stats_mutex,
                    client_counter, apc, spc, messages_from_client, partial,
                    listening, hist >>

\* app_cjson.c:247-249  lock(stats_mutex); total_messages++; unlock
CjsonCount(w) ==
    /\ ProcessAlive
    /\ wpc[w] = "j_count"
    /\ stats_mutex = Free
    /\ total_messages' = total_messages + 1
    /\ wpc' = [wpc EXCEPT ![w] = "j_loop"]
    /\ UNCHANGED << servidor_rodando, clientes_conectados, total_connections,
                    active_threads, peak_connections, errors, stats_mutex,
                    client_counter, apc, spc, messages_from_client, partial,
                    responses, listening, hist >>

\* app_cjson.c:259-272  close(socket_cliente); lock(stats_mutex);
\* active_threads--; unlock
CjsonExitStats(w) ==
    /\ ProcessAlive
    /\ wpc[w] = "j_close"
    /\ stats_mutex = Free
    /\ active_threads' = active_threads - 1
    /\ wpc' = [wpc EXCEPT ![w] = "j_uncount"]
    /\ UNCHANGED << servidor_rodando, clientes_conectados, total_connections,
                    total_messages, peak_connections, errors, stats_mutex,
                    client_counter, apc, spc, messages_from_client, partial,
                    responses, listening, hist >>

\* app_cjson.c:274-279  lock(connection_mutex); clientes_conectados--;
\* unlock; free(client_data); return NULL
CjsonUncount(w) ==
    /\ ProcessAlive
    /\ wpc[w] = "j_uncount"
    /\ clientes_conectados' = clientes_conectados - 1
    /\ completed' = completed + 1
    /\ wpc' = [wpc EXCEPT ![w] = "w_done"]
    /\ UNCHANGED << servidor_rodando, stats, stats_mutex, client_counter,
                    apc, spc, messages_from_client, partial, responses,
                    listening, accepted, accept_errors, rejected, spawned,
                    abnormal_ends >>

\* the steps of main in app_cjson.c
CjsonMainStep ==
    \/ AcceptLoop \/ CjsonAcceptError \/ CjsonThreadLimit
    \/ CjsonAllocClientData \/ CjsonCreateThread
    \/ JoinStats \/ CloseListening \/ MainReturn

\* the steps of one client thread in app_cjson.c
CjsonWorkerStep(w) ==
    \/ CjsonRegister(w) \/ CjsonConnect(w) \/ CjsonLoop(w) \/ CjsonReceive(w)
    \/ CjsonCountError(w) \/ CjsonSend(w) \/ CjsonCount(w)
    \/ CjsonExitStats(w) \/ CjsonUncount(w)

(***************************************************************************)
(* The framing of the C++ servers on the frames of RawFrames: the reader   *)
(* of app_old.cpp (receive_json_message, app_old.cpp:67-83) and the reader *)
(* and writer inside processar_cliente of app_configurable.cpp (68-102).   *)
(* cx_pc tells which code runs: "old_read", or "cpp_read" and then         *)
(* "cpp_respond"; a run ends in "closed" or "responded".                   *)
(***************************************************************************)
\* app_old.cpp:70  if (message_size == 0 || message_size > BUFFER_SIZE)
old_LengthRejected(message_size) ==
    U32IsZero(message_size) \/ U32Gt(message_size, BUFFER_SIZE)

\* app_old.cpp:67-83  receive_json_message(socket): char buffer[BUFFER_SIZE];
\* recv(buffer, message_size) stores bytes_received bytes from buffer[0];
\* when all arrived, buffer[bytes_received] = '\0' and std::string(buffer).
\* The field buffer is everything the function stores, in index order,
\* whether or not the array has room for it.
old_receive_json_message(stream) ==
    LET r == receive_message_size(stream)
    IN  IF old_LengthRejected(r.size)
           THEN [ret |-> << >>, consumed |-> r.consumed, buffer |-> << >>]
           ELSE LET n == U32Value(r.size)
                    avail == Len(stream) - 4
                IN  IF avail < n
                       THEN [ret |-> << >>, consumed |-> Len(stream),
                             buffer |-> SubSeq(stream, 5, Len(stream))]
                       ELSE LET stored == SubSeq(stream, 5, 4 + n) \o << 0 >>
                            IN  [ret |-> SubSeq(stored, 1, strlen(stored)),
                                 consumed |-> 4 + n, buffer |-> stored]

\* app_configurable.cpp:78  if (message_size == 0 || message_size > BUFFER_SIZE - 1)
cpp_LengthRejected(message_size) ==
    U32IsZero(message_size) \/ U32Gt(message_size, BUFFER_SIZE - 1)

\* app_configurable.cpp:68-89  the reading half of one iteration of
\* processar_cliente: recv of the 4-byte length, ntohl, the length test,
\* recv of the message into char buffer[BUFFER_SIZE] and
\* buffer[message_size] = '\0'; ret is -1 where the code breaks
cpp_receive(stream) ==
    IF Len(stream) < 4
       THEN [ret |-> 0 - 1, consumed |-> Len(stream), buffer |-> << >>]
       ELSE LET message_size == ntohl(SubSeq(stream, 1, 4))
            IN  IF cpp_LengthRejected(message_size)
                   THEN [ret |-> 0 - 1, consumed |-> 4, buffer |-> << >>]
                   ELSE LET n == U32Value(message_size)
                            avail == Len(stream) - 4
                        IN  IF avail < n
                               THEN [ret |-> 0 - 1, consumed |-> Len(stream),
                                     buffer |-> SubSeq(stream, 5, Len(stream))]
                               ELSE [ret |-> n, consumed |-> 4 + n,
                                     buffer |-> SubSeq(stream, 5, 4 + n) \o << 0 >>]

\* "pong_"
STR_pong_ == << 112, 111, 110, 103, 95 >>

\* app_configurable.cpp:91  std::string response = "pong_" + std::string(buffer)
cpp_response(buffer) == STR_pong_ \o SubSeq(buffer, 1, strlen(buffer))

\* app_configurable.cpp:92-100  htonl(response.length()) is sent, then
\* response.length() bytes of response.c_str(): the frame on the wire when
\* both send() calls succeed
cpp_send(response) == htonl(Len(response)) \o response

FrameInit ==
    /\ cx_pc \in {"old_read", "cpp_read"}
    /\ cx_payload = << >>
    /\ cx_stream \in RawFrames
    /\ cx_result = NoResult

\* app_old.cpp:134-139  std::string message_json = receive_json_message(...);
\* if (message_json.empty()) break
OldRead ==
    /\ cx_pc = "old_read"
    /\ cx_result' = old_receive_json_message(cx_stream)
    /\ cx_pc' = IF old_receive_json_message(cx_stream).ret = << >>
                   THEN "closed" ELSE "process"
    /\ UNCHANGED << cx_payload, cx_stream >>

\* app_configurable.cpp:68-89  the request is read; each break leads to
\* close(cliente_socket) at line 115
CppRead ==
    /\ cx_pc = "cpp_read"
    /\ cx_result' = cpp_receive(cx_stream)
    /\ cx_pc' = IF cpp_receive(cx_stream).ret < 0 THEN "closed" ELSE "cpp_respond"
    /\ UNCHANGED << cx_payload, cx_stream >>

\* app_configurable.cpp:91-102  the response is built and written; cx_payload
\* is the response, cx_stream the frame the server put on the wire
CppRespond ==
    /\ cx_pc = "cpp_respond"
    /\ cx_payload' = cpp_response(cx_result.buffer)
    /\ cx_stream' = cpp_send(cpp_response(cx_result.buffer))
    /\ cx_pc' = "responded"
    /\ UNCHANGED cx_result

(***************************************************************************)
(* The second message counter of the C++ servers: std::atomic<int>         *)
(* total_messages (app_json.cpp:28, app_configurable.cpp:28,               *)
(* app_simple.cpp:27), kept beside server_stats.total_messages.            *)
(***************************************************************************)
VARIABLE total_messages_atomic

xvars == << total_messages_atomic >>

\* std::atomic<int> total_messages(0)
AtomicInit == total_messages_atomic = 0

(***************************************************************************)
(* The server of app_configurable.cpp: main, app_configurable.cpp:126-255, *)
(* and processar_cliente, app_configurable.cpp:53-124.  Its signal         *)
(* handler (app_configurable.cpp:39-42), its statistics thread             *)
(* (app_configurable.cpp:184-189) and the handling of a failed accept      *)
(* (app_configurable.cpp:200-206) are the statements of app.c and are      *)
(* modelled by the same actions.  The worker of the n-th thread started is *)
(* worker n.                                                               *)
(***************************************************************************)
\* app_configurable.cpp:194 and 234-235  while (servidor_rodando); when
\* the loop ends, close(socketServidor)
CppAcceptLoop ==
    /\ apc = "a_loop"
    /\ IF servidor_rodando # 0
          THEN /\ apc' = "a_accept"
               /\ listening' = listening
          ELSE /\ apc' = "p_join"
               /\ listening' = FALSE
    /\ UNCHANGED << servidor_rodando, clientes_conectados, stats, stats_mutex,
                    client_counter, spc, wvars, hist >>

\* app_configurable.cpp:208-225  setsockopt(TCP_NODELAY), then
\* client_threads.emplace_back(processar_cliente, ...) starts the thread;
\* the loop that follows detaches every thread of the vector and erases
\* it, so the vector is empty again at the end of each iteration.
\* std::thread throws std::system_error when no thread can be started.
CppCreateThread ==
    /\ apc = "a_check"
    /\ \E ok \in BOOLEAN :
          IF ok
             THEN /\ wpc' = [wpc EXCEPT ![spawned + 1] = "p_register"]
                  /\ spawned' = spawned + 1
                  /\ apc' = "a_loop"
             ELSE /\ wpc' = wpc
                  /\ spawned' = spawned
                  /\ apc' = "p_create_error"
    /\ UNCHANGED << servidor_rodando, clientes_conectados, stats, stats_mutex,
                    client_counter, spc, messages_from_client, partial,
                    responses, listening, accepted, accept_errors, rejected,
                    completed, abnormal_ends >>

\* app_configurable.cpp:226-231  catch: close(cliente_socket);
\* lock(stats_mutex); server_stats.errors++
CppCreateError ==
    /\ apc = "p_create_error"
    /\ stats_mutex = Free
    /\ errors' = errors + 1
    /\ apc' = "a_loop"
    /\ UNCHANGED << servidor_rodando, clientes_conectados, total_connections,
                    total_messages, active_threads, peak_connections,
                    stats_mutex, client_counter, spc, wvars, listening, hist >>

\* app_configurable.cpp:237-246  the loop over client_threads joins
\* nothing, because every thread was detached and erased when it was
\* started; then stats_thread.join()
CppJoinStats ==
    /\ apc = "p_join"
    /\ spc = "s_done"
    /\ apc' = "p_print"
    /\ UNCHANGED << servidor_rodando, clientes_conectados, stats, stats_mutex,
                    client_counter, spc, wvars, listening, hist >>

\* app_configurable.cpp:248-254  the final statistics are printed with no
\* lock taken, then return 0: the process exits, whatever its detached
\* threads are doing
CppMainReturn ==
    /\ apc = "p_print"
    /\ apc' = "exited"
    /\ UNCHANGED << servidor_rodando, clientes_conectados, stats, stats_mutex,
                    client_counter, spc, wvars, listening, hist >>

\* app_configurable.cpp:54-59  lock(stats_mutex); total_connections++;
\* active_threads++; clientes_conectados++; unlock
CppRegister(w) ==
    /\ ProcessAlive
    /\ UNCHANGED xvars
    /\ wpc[w] = "p_register"
    /\ stats_mutex = Free
    /\ total_connections' = total_connections + 1
    /\ active_threads' = active_threads + 1
    /\ clientes_conectados' = clientes_conectados + 1
    /\ wpc' = [wpc EXCEPT ![w] = "p_loop"]
    /\ UNCHANGED << servidor_rodando, total_messages, peak_connections,
                    errors, stats_mutex, client_counter, apc, spc,
                    messages_from_client, partial, responses, listening,
                    hist >>

\* app_configurable.cpp:67  while (servidor_rodando); when it ends,
\* app_configurable.cpp:115 close(cliente_socket)
CppLoop(w) ==
    /\ ProcessAlive
    /\ UNCHANGED xvars
    /\ wpc[w] = "p_loop"
    /\ wpc' = [wpc EXCEPT ![w] =
                  IF servidor_rodando # 0 THEN "p_recv" ELSE "p_exit"]
    /\ UNCHANGED << servidor_rodando, clientes_conectados, stats, stats_mutex,
                    client_counter, apc, spc, messages_from_client, partial,
                    responses, listening, hist >>

\* app_configurable.cpp:68-92  the two recv(MSG_WAITALL) and the length
\* test: break on a short read or a length of 0 or above BUFFER_SIZE - 1;
\* otherwise the response string is built, and std::string throws
\* std::bad_alloc when memory is exhausted
CppReceive(w) ==
    /\ ProcessAlive
    /\ UNCHANGED xvars
    /\ wpc[w] = "p_recv"
    /\ \E got \in {"nothing", "message", "throws"} :
          IF got = "nothing"
             THEN /\ messages_from_client' = messages_from_client
                  /\ wpc' = [wpc EXCEPT ![w] = "p_exit"]
             ELSE /\ messages_from_client[w] < MaxMsgs
                  /\ messages_from_client' =
                        [messages_from_client EXCEPT ![w] = messages_from_client[w] + 1]
                  /\ wpc' = [wpc EXCEPT ![w] =
                                IF got = "message" THEN "p_send_size" ELSE "p_error"]
    /\ UNCHANGED << servidor_rodando, clientes_conectados, stats, stats_mutex,
                    client_counter, apc, spc, partial, responses, listening,
                    hist >>

\* app_configurable.cpp:94-102  send() of the length prefix, then send() of
\* the response; break when either is short
CppSend(w) ==
    /\ ProcessAlive
    /\ UNCHANGED xvars
    /\ wpc[w] \in {"p_send_size", "p_send_body"}
    /\ \E ok \in BOOLEAN :
          IF ~ok
             THEN /\ wpc' = [wpc EXCEPT ![w] = "p_exit"]
                  /\ UNCHANGED << partial, responses >>
             ELSE IF wpc[w] = "p_send_size"
                     THEN /\ wpc' = [wpc EXCEPT ![w] = "p_send_body"]
                          /\ partial' = [partial EXCEPT ![w] = TRUE]
                          /\ responses' = responses
                     ELSE /\ wpc' = [wpc EXCEPT ![w] = "p_count"]
                          /\ partial' = [partial EXCEPT ![w] = FALSE]
                          /\ responses' = [responses EXCEPT ![w] = responses[w] + 1]
    /\ UNCHANGED << servidor_rodando, clientes_conectados, stats, stats_mutex,
                    client_counter, apc, spc, messages_from_client,
                    listening, hist >>

\* app_configurable.cpp:107  total_messages++ on the std::atomic<int>
AtomicCounted_Skipped(n) == n

AtomicCounted(n) == n + 1

\* app_configurable.cpp:104-106  { std::lock_guard<std::mutex>
\* lock(stats_mutex); server_stats.total_messages++;
CppCount(w) ==
    /\ ProcessAlive
    /\ UNCHANGED xvars
    /\ wpc[w] = "p_count"
    /\ stats_mutex = Free
    /\ stats_mutex' = WorkerTid(w)
    /\ total_messages' = total_messages + 1
    /\ wpc' = [wpc EXCEPT ![w] = "p_count_atomic"]
    /\ UNCHANGED << servidor_rodando, clientes_conectados, total_connections,
                    active_threads, peak_connections, errors,
                    client_counter, apc, spc, messages_from_client, partial,
                    responses, listening, hist >>

\* app_configurable.cpp:107-108  total_messages++; } the lock_guard releases
\* stats_mutex
CppCountAtomic(w) ==
    /\ ProcessAlive
    /\ wpc[w] = "p_count_atomic"
    /\ stats_mutex = WorkerTid(w)
    /\ total_messages_atomic' = AtomicCounted(total_messages_atomic)
    /\ stats_mutex' = Free
    /\ wpc' = [wpc EXCEPT ![w] = "p_loop"]
    /\ UNCHANGED << servidor_rodando, clientes_conectados, stats,
                    client_counter, apc, spc, messages_from_client, partial,
                    responses, listening, hist >>

\* app_configurable.cpp:110-113  catch (const std::exception&):
\* lock(stats_mutex); server_stats.errors++
CppCountError(w) ==
    /\ ProcessAlive
    /\ UNCHANGED xvars
    /\ wpc[w] = "p_error"
    /\ stats_mutex = Free
    /\ errors' = errors + 1
    /\ wpc' = [wpc EXCEPT ![w] = "p_exit"]
    /\ UNCHANGED << servidor_rodando, clientes_conectados, total_connections,
                    total_messages, active_threads, peak_connections,
                    stats_mutex, client_counter, apc, spc,
                    messages_from_client, partial, responses, listening,
                    hist >>

\* app_configurable.cpp:115-121  close(cliente_socket); lock(stats_mutex);
\* active_threads--; clientes_conectados--; unlock
CppExit(w) ==
    /\ ProcessAlive
    /\ UNCHANGED xvars
    /\ wpc[w] = "p_exit"
    /\ stats_mutex = Free
    /\ active_threads' = active_threads - 1
    /\ clientes_conectados' = clientes_conectados - 1
    /\ completed' = completed + 1
    /\ wpc' = [wpc EXCEPT ![w] = "w_done"]
    /\ UNCHANGED << servidor_rodando, total_connections, total_messages,
                    peak_connections, errors, stats_mutex, client_counter,
                    apc, spc, messages_from_client, partial, responses,
                    listening, accepted, accept_errors, rejected, spawned,
                    abnormal_ends >>

\* the steps of main in app_configurable.cpp
CppMainStep ==
    \/ CppAcceptLoop \/ AcceptErrorTest \/ AcceptErrorCount
    \/ CppCreateThread \/ CppCreateError \/ CppJoinStats \/ CppMainReturn

\* the steps of one client thread in app_configurable.cpp
CppWorkerStep(w) ==
    \/ CppRegister(w) \/ CppLoop(w) \/ CppReceive(w) \/ CppSend(w)
    \/ CppCount(w) \/ CppCountAtomic(w) \/ CppCountError(w) \/ CppExit(w)

(***************************************************************************)
(* The server of app_json.cpp: main, app_json.cpp:233-352, and             *)
(* tratarCliente, app_json.cpp:92-231.  Its signal handler, its statistics *)
(* thread (app_json.cpp:281-288), the handling of a failed accept          *)
(* (app_json.cpp:300-307), the ceiling check (app_json.cpp:310-314) and    *)
(* the end of main (app_json.cpp:341-350) are the statements of app.c; the *)
(* worker's registration (app_json.cpp:113-118), loop test                 *)
(* (app_json.cpp:126) and exit (app_json.cpp:220-227) are the statements   *)
(* of app_configurable.cpp; they are modelled by the same actions.  After  *)
(* the ceiling check main is at "a_count", where this server starts the    *)
(* thread without counting anything.                                       *)
(***************************************************************************)
\* app_json.cpp:294 and 332  while (servidor_rodando)
JsonAcceptLoop ==
    /\ apc = "a_loop"
    /\ apc' = IF servidor_rodando # 0 THEN "a_accept" ELSE "q_join"
    /\ UNCHANGED << servidor_rodando, clientes_conectados, stats, stats_mutex,
                    client_counter, spc, wvars, listening, hist >>

\* app_json.cpp:317-329  client_threads.emplace_back(tratarCliente, ...)
\* starts the thread; the erase that follows removes no thread, since none
\* was joined or detached.  std::thread throws std::system_error when no
\* thread can be started; nothing catches it and the process is aborted.
JsonCreateThread ==
    /\ apc = "a_count"
    /\ \E ok \in BOOLEAN :
          IF ok
             THEN /\ wpc' = [wpc EXCEPT ![spawned + 1] = "p_register"]
                  /\ spawned' = spawned + 1
                  /\ apc' = "a_loop"
             ELSE /\ wpc' = wpc
                  /\ spawned' = spawned
                  /\ apc' = "exited"
    /\ UNCHANGED << servidor_rodando, clientes_conectados, stats, stats_mutex,
                    client_counter, spc, messages_from_client, partial,
                    responses, listening, accepted, accept_errors, rejected,
                    completed, abnormal_ends >>

\* app_json.cpp:335-339  for (auto& t : client_threads) t.join(): main
\* waits for every thread it started
JsonJoinWorkers ==
    /\ apc = "q_join"
    /\ \A w \in 1..spawned : wpc[w] = "w_done"
    /\ apc' = "m_join"
    /\ UNCHANGED << servidor_rodando, clientes_conectados, stats, stats_mutex,
                    client_counter, spc, wvars, listening, hist >>

\* app_json.cpp:128-136  receive_json_message returns "": break; or a
\* message: messages_from_client++; total_messages++ (the atomic counter)
JsonReceive(w) ==
    /\ ProcessAlive
    /\ wpc[w] = "p_recv"
    /\ \E got \in BOOLEAN :
          IF got
             THEN /\ messages_from_client[w] < MaxMsgs
                  /\ messages_from_client' =
                        [messages_from_client EXCEPT ![w] = messages_from_client[w] + 1]
                  /\ total_messages_atomic' = total_messages_atomic + 1
                  /\ wpc' = [wpc EXCEPT ![w] = "q_parse"]
             ELSE /\ messages_from_client' = messages_from_client
                  /\ total_messages_atomic' = total_messages_atomic
                  /\ wpc' = [wpc EXCEPT ![w] = "p_exit"]
    /\ UNCHANGED << servidor_rodando, clientes_conectados, stats, stats_mutex,
                    client_counter, apc, spc, partial, responses, listening,
                    hist >>

\* app_json.cpp:138-183  reader.parse fails on a payload that is not JSON;
\* asString and asInt64 throw when a field has a type they cannot convert;
\* otherwise the response is built and serialised
JsonParse(w) ==
    /\ ProcessAlive
    /\ wpc[w] = "q_parse"
    /\ \E outcome \in {"q_parse_error", "q_exception", "q_send_size"} :
          wpc' = [wpc EXCEPT ![w] = outcome]
    /\ UNCHANGED << servidor_rodando, clientes_conectados, stats, stats_mutex,
                    client_counter, apc, spc, messages_from_client, partial,
                    responses, listening, hist, xvars >>

\* app_json.cpp:143-148  lock(stats_mutex); errors++; continue, and
\* app_json.cpp:206-211  catch: lock(stats_mutex); errors++; break
JsonCountError(w) ==
    /\ ProcessAlive
    /\ wpc[w] \in {"q_parse_error", "q_exception"}
    /\ stats_mutex = Free
    /\ errors' = errors + 1
    /\ wpc' = [wpc EXCEPT ![w] =
                  IF wpc[w] = "q_parse_error" THEN "p_loop" ELSE "p_exit"]
    /\ UNCHANGED << servidor_rodando, clientes_conectados, total_connections,
                    total_messages, active_threads, peak_connections,
                    stats_mutex, client_counter, apc, spc,
                    messages_from_client, partial, responses, listening,
                    hist, xvars >>

\* app_json.cpp:186-188 and 79-90  send_json_message: send() of the length
\* prefix, then send() of the response; break when either is short
JsonSend(w) ==
    /\ ProcessAlive
    /\ wpc[w] \in {"q_send_size", "q_send_body"}
    /\ \E ok \in BOOLEAN :
          IF ~ok
             THEN /\ wpc' = [wpc EXCEPT ![w] = "p_exit"]
                  /\ UNCHANGED << partial, responses >>
             ELSE IF wpc[w] = "q_send_size"
                     THEN /\ wpc' = [wpc EXCEPT ![w] = "q_send_body"]
                          /\ partial' = [partial EXCEPT ![w] = TRUE]
                          /\ responses' = responses
                     ELSE /\ wpc' = [wpc EXCEPT ![w] = "q_count"]
                          /\ partial' = [partial EXCEPT ![w] = FALSE]
                          /\ responses' = [responses EXCEPT ![w] = responses[w] + 1]
    /\ UNCHANGED << servidor_rodando, clientes_conectados, stats, stats_mutex,
                    client_counter, apc, spc, messages_from_client,
                    listening, hist, xvars >>

\* app_json.cpp:190-217  the pacing sleep, then lock(stats_mutex);
\* server_stats.total_messages++; unlock
JsonCount(w) ==
    /\ ProcessAlive
    /\ wpc[w] = "q_count"
    /\ stats_mutex = Free
    /\ total_messages' = total_messages + 1
    /\ wpc' = [wpc EXCEPT ![w] = "p_loop"]
    /\ UNCHANGED << servidor_rodando, clientes_conectados, total_connections,
                    active_threads, peak_connections, errors, stats_mutex,
                    client_counter, apc, spc, messages_from_client, partial,
                    responses, listening, hist, xvars >>

\* the steps of main in app_json.cpp
JsonMainStep ==
    \/ JsonAcceptLoop \/ AcceptErrorTest \/ AcceptErrorCount \/ CeilingCheck
    \/ JsonCreateThread \/ JsonJoinWorkers
    \/ JoinStats \/ CloseListening \/ MainReturn

\* the steps of one client thread in app_json.cpp
JsonWorkerStep(w) ==
    \/ CppRegister(w) \/ CppLoop(w) \/ JsonReceive(w) \/ JsonParse(w)
    \/ JsonCountError(w) \/ JsonSend(w) \/ JsonCount(w) \/ CppExit(w)

(***************************************************************************)
(* The two mutexes, app.c:27-28 (stats_mutex, connection_mutex; the same   *)
(* pair in app_cjson.c:28-29), with every pthread_mutex_lock and           *)
(* pthread_mutex_unlock a step of its own.  A thread runs the lock         *)
(* operations of its code in program order; what it does to the counters   *)
(* in between is in the actions of the servers above.  A mutex is          *)
(* PTHREAD_MUTEX_INITIALIZER, not recursive: pthread_mutex_lock waits      *)
(* while any thread, the caller included, holds it.                        *)
(***************************************************************************)
\* number of lock sequences main and the statistics thread start in one run
MaxSections == 2

Lock(m)   == << "lock", m >>
Unlock(m) == << "unlock", m >>
Mutexes   == {"stats_mutex", "connection_mutex"}
NoThread  == << "none", 0 >>

\* app.c:55-59  print_stats: lock(stats_mutex) ... unlock(stats_mutex)
print_stats_locks == << Lock("stats_mutex"), Unlock("stats_mutex") >>

\* a worker that takes connection_mutex inside its statistics section
tratar_cliente_locks_Nested ==
    << Lock("stats_mutex"), Lock("connection_mutex"),
       Unlock("connection_mutex"), Unlock("stats_mutex") >>

\* app.c:178-184 registration under stats_mutex; app.c:259-261
\* clientes_conectados-- under connection_mutex; app.c:263-265
\* active_threads-- under stats_mutex.  The loop between them takes no
\* mutex, and each break of the loop leads to line 256.
tratar_cliente_locks ==
    << Lock("stats_mutex"), Unlock("stats_mutex"),
       Lock("connection_mutex"), Unlock("connection_mutex"),
       Lock("stats_mutex"), Unlock("stats_mutex") >>

\* One iteration of the accept loop, app.c:346-396: the failed accept
\* counted under stats_mutex (351-353); the connection counted under
\* connection_mutex (366-369) and, when malloc or pthread_create fails,
\* taken off again under connection_mutex (376-378, 392-394).  A rejected
\* connection takes no mutex.  After the loop, print_stats (app.c:413).
main_locks ==
    { << Lock("stats_mutex"), Unlock("stats_mutex") >>,
      << Lock("connection_mutex"), Unlock("connection_mutex") >>,
      << Lock("connection_mutex"), Unlock("connection_mutex"),
         Lock("connection_mutex"), Unlock("connection_mutex") >>,
      print_stats_locks }

\* tratarCliente of app_cjson.c: registration under stats_mutex (150-153),
\* then the connection counted under connection_mutex (155-160); in the
\* loop an error (183-185, 235-237) or a message (247-249) counted under
\* stats_mutex; at exit active_threads-- under stats_mutex (270-272), then
\* clientes_conectados-- under connection_mutex (274-276).
cjson_tratarCliente_locks ==
    LET entry == << Lock("stats_mutex"), Unlock("stats_mutex"),
                    Lock("connection_mutex"), Unlock("connection_mutex") >>
        count == << Lock("stats_mutex"), Unlock("stats_mutex") >>
    IN  { entry \o entry, entry \o count \o entry }

LockThreads ==
    { << "main", 0 >>, << "thread_stats", 0 >> }
       \cup { << "tratar_cliente", w >> : w \in Workers }

\* the lock sequences a thread may start
LockPaths(t, variant) ==
    IF t[1] = "thread_stats" THEN { print_stats_locks }
    ELSE IF t[1] = "main"
            THEN (IF variant = "app.c" THEN main_locks ELSE { print_stats_locks })
    ELSE IF variant = "app.c" THEN { tratar_cliente_locks }
    ELSE cjson_tratarCliente_locks

VARIABLES
    mx_holder,    \* the thread holding each mutex, or NoThread
    lk_todo,      \* per thread: the lock operations still ahead of it
    lk_left,      \* per thread: lock sequences it may still start
    lk_variant    \* "app.c" or "app_cjson.c"

lvars == << mx_holder, lk_todo, lk_left, lk_variant >>

LockInit ==
    /\ mx_holder = [m \in Mutexes |-> NoThread]
    /\ lk_todo = [t \in LockThreads |-> << >>]
    /\ lk_left = [t \in LockThreads |->
                    IF t[1] = "tratar_cliente" THEN 1 ELSE MaxSections]
    /\ lk_variant \in {"app.c", "app_cjson.c"}

\* the thread reaches the code of one of its lock sequences
LockBegin(t) ==
    /\ lk_todo[t] = << >>
    /\ lk_left[t] > 0
    /\ \E path \in LockPaths(t, lk_variant) :
          lk_todo' = [lk_todo EXCEPT ![t] = path]
    /\ lk_left' = [lk_left EXCEPT ![t] = lk_left[t] - 1]
    /\ UNCHANGED << mx_holder, lk_variant >>

\* pthread_mutex_lock(&m) returns once no thread holds m
LockAcquire(t) ==
    /\ lk_todo[t] # << >>
    /\ Head(lk_todo[t])[1] = "lock"
    /\ mx_holder[Head(lk_todo[t])[2]] = NoThread
    /\ mx_holder' = [mx_holder EXCEPT ![Head(lk_todo[t])[2]] = t]
    /\ lk_todo' = [lk_todo EXCEPT ![t] = Tail(lk_todo[t])]
    /\ UNCHANGED << lk_left, lk_variant >>

\* pthread_mutex_unlock(&m)
LockRelease(t) ==
    /\ lk_todo[t] # << >>
    /\ Head(lk_todo[t])[1] = "unlock"
    /\ mx_holder' = [mx_holder EXCEPT ![Head(lk_todo[t])[2]] = NoThread]
    /\ lk_todo' = [lk_todo EXCEPT ![t] = Tail(lk_todo[t])]
    /\ UNCHANGED << lk_left, lk_variant >>

LockIdle ==
    /\ mx_holder = [m \in Mutexes |-> NoThread]
    /\ lk_todo = [t \in LockThreads |-> << >>]
    /\ lk_left = [t \in LockThreads |-> 0]
    /\ lk_variant = "app.c"

(***************************************************************************)
(* The accept loop of the second main of app_cjson.c (597-663), which      *)
(* keeps the handles of the client threads in pthread_t                    *)
(* threads[MAX_THREADS] and counts them in thread_count.  kpc is the       *)
(* position of main in the loop, threads the set of indexes of the array   *)
(* that main has used.  The flag is servidor_rodando of the server.        *)
(***************************************************************************)
\* app_cjson.c:22  #define MAX_THREADS 100, the size of the handle array
MAX_THREAD_HANDLES == 100

VARIABLES thread_count, threads, kpc

kvars == << thread_count, threads, kpc >>

\* app_cjson.c:628  if (thread_count >= MAX_THREADS)
HandleLimitReached(count) == count >= MAX_THREAD_HANDLES

\* app_cjson.c:659  if (thread_count >= MAX_THREADS - 10)
ResetDue_Never(count) == FALSE

ResetDue(count) == count >= MAX_THREAD_HANDLES - 10

\* app_cjson.c:598-600  pthread_t threads[MAX_THREADS]; int thread_count = 0
HandleInit ==
    /\ thread_count = 0
    /\ threads = {}
    /\ kpc = "k_loop"

\* app_cjson.c:603  while (servidor_rodando)
HandleLoop ==
    /\ kpc = "k_loop"
    /\ kpc' = IF WorkerLoopRuns(servidor_rodando) THEN "k_accept" ELSE "k_done"
    /\ UNCHANGED << thread_count, threads >>

\* app_cjson.c:607-614  accept; on -1 continue
HandleAccept ==
    /\ kpc = "k_accept"
    /\ \E ok \in BOOLEAN : kpc' = IF ok THEN "k_connections" ELSE "k_loop"
    /\ UNCHANGED << thread_count, threads >>

\* app_cjson.c:617-625  current_connections = clientes_conectados, read under
\* connection_mutex while the workers change it; at the limit close, continue
HandleConnectionLimit ==
    /\ kpc = "k_connections"
    /\ \E current_connections \in 0..MAX_CONNECTIONS :
          kpc' = IF CeilingReached(current_connections) THEN "k_loop" ELSE "k_limit"
    /\ UNCHANGED << thread_count, threads >>

\* app_cjson.c:628-632  the thread-limit check; at the limit close, continue
HandleThreadLimit ==
    /\ kpc = "k_limit"
    /\ kpc' = IF HandleLimitReached(thread_count) THEN "k_loop" ELSE "k_malloc"
    /\ UNCHANGED << thread_count, threads >>

\* app_cjson.c:635-644  malloc(sizeof(ClientData)); on NULL close, continue
HandleAlloc ==
    /\ kpc = "k_malloc"
    /\ \E ok \in BOOLEAN : kpc' = IF ok THEN "k_create" ELSE "k_loop"
    /\ UNCHANGED << thread_count, threads >>

\* app_cjson.c:647-652  pthread_create(&threads[thread_count], ...); on
\* failure free, close, continue
HandleCreate ==
    /\ kpc = "k_create"
    /\ threads' = threads \cup {thread_count}
    /\ \E ok \in BOOLEAN : kpc' = IF ok THEN "k_detach" ELSE "k_loop"
    /\ UNCHANGED thread_count

\* app_cjson.c:655-656  pthread_detach(threads[thread_count]); thread_count++
HandleDetach ==
    /\ kpc = "k_detach"
    /\ threads' = threads \cup {thread_count}
    /\ thread_count' = thread_count + 1
    /\ kpc' = "k_reset"

\* app_cjson.c:659-663  if (thread_count >= MAX_THREADS - 10) thread_count = 0
HandleReset ==
    /\ kpc = "k_reset"
    /\ thread_count' = IF ResetDue(thread_count) THEN 0 ELSE thread_count
    /\ kpc' = "k_loop"
    /\ UNCHANGED threads

HandleIdle ==
    /\ thread_count = 0
    /\ threads = {}
    /\ kpc = "idle"

vars == << svars, cvars, pvars, tvars, bvars, avars, xvars, lvars, kvars >>

Init == ServerInit /\ CodecIdle /\ ProtoIdle /\ TextIdle /\ BatchIdle /\ PaceIdle /\ AtomicInit /\ LockIdle /\ HandleIdle

Next ==
    \/ SignalHandler /\ UNCHANGED << cvars, pvars, tvars, bvars, avars, xvars, lvars, kvars >>
    \/ AcceptReturns /\ UNCHANGED << cvars, pvars, tvars, bvars, avars, xvars, lvars, kvars >>
    \/ AcceptFails /\ UNCHANGED << cvars, pvars, tvars, bvars, avars, xvars, lvars, kvars >>
    \/ MainStep /\ UNCHANGED << cvars, pvars, tvars, bvars, avars, xvars, lvars, kvars >>
    \/ StatsStep /\ UNCHANGED << cvars, pvars, tvars, bvars, avars, xvars, lvars, kvars >>
    \/ \E w \in Workers : WorkerStep(w) /\ UNCHANGED << cvars, pvars, tvars, bvars, avars, xvars, lvars, kvars >>

Spec == Init /\ [][Next]_vars

\* the threads take their steps; a signal, a client connecting and accept
\* failing are up to the environment
Fairness ==
    /\ WF_vars(MainStep /\ UNCHANGED << cvars, pvars, tvars, bvars, avars, xvars, lvars, kvars >>)
    /\ WF_vars(StatsStep /\ UNCHANGED << cvars, pvars, tvars, bvars, avars, xvars, lvars, kvars >>)
    /\ \A w \in Workers : WF_vars(WorkerStep(w) /\ UNCHANGED << cvars, pvars, tvars, bvars, avars, xvars, lvars, kvars >>)

FairSpec == Init /\ [][Next]_vars /\ Fairness

\* the server of app_configurable.c
ConfNext ==
    \/ SignalHandler /\ UNCHANGED << cvars, pvars, tvars, bvars, avars, xvars, lvars, kvars >>
    \/ AcceptReturns /\ UNCHANGED << cvars, pvars, tvars, bvars, avars, xvars, lvars, kvars >>
    \/ AcceptFails /\ UNCHANGED << cvars, pvars, tvars, bvars, avars, xvars, lvars, kvars >>
    \/ MainStep /\ UNCHANGED << cvars, pvars, tvars, bvars, avars, xvars, lvars, kvars >>
    \/ StatsStep /\ UNCHANGED << cvars, pvars, tvars, bvars, avars, xvars, lvars, kvars >>
    \/ \E w \in Workers : ConfWorkerStep(w) /\ UNCHANGED << cvars, pvars, tvars, bvars, avars, xvars, lvars, kvars >>

ConfSpec == Init /\ [][ConfNext]_vars

\* the server of app_cjson.c
CjsonNext ==
    \/ SignalHandler /\ UNCHANGED << cvars, pvars, tvars, bvars, avars, xvars, lvars, kvars >>
    \/ AcceptReturns /\ UNCHANGED << cvars, pvars, tvars, bvars, avars, xvars, lvars, kvars >>
    \/ AcceptFails /\ UNCHANGED << cvars, pvars, tvars, bvars, avars, xvars, lvars, kvars >>
    \/ CjsonMainStep /\ UNCHANGED << cvars, pvars, tvars, bvars, avars, xvars, lvars, kvars >>
    \/ StatsStep /\ UNCHANGED << cvars, pvars, tvars, bvars, avars, xvars, lvars, kvars >>
    \/ \E w \in Workers : CjsonWorkerStep(w) /\ UNCHANGED << cvars, pvars, tvars, bvars, avars, xvars, lvars, kvars >>

CjsonSpec == Init /\ [][CjsonNext]_vars

\* the server of app_configurable.cpp
CppNext ==
    \/ SignalHandler /\ UNCHANGED << cvars, pvars, tvars, bvars, avars, xvars, lvars, kvars >>
    \/ AcceptReturns /\ UNCHANGED << cvars, pvars, tvars, bvars, avars, xvars, lvars, kvars >>
    \/ AcceptFails /\ UNCHANGED << cvars, pvars, tvars, bvars, avars, xvars, lvars, kvars >>
    \/ CppMainStep /\ UNCHANGED << cvars, pvars, tvars, bvars, avars, xvars, lvars, kvars >>
    \/ StatsStep /\ UNCHANGED << cvars, pvars, tvars, bvars, avars, xvars, lvars, kvars >>
    \/ \E w \in Workers : CppWorkerStep(w) /\ UNCHANGED << cvars, pvars, tvars, bvars, avars, lvars, kvars >>

CppSpec == Init /\ [][CppNext]_vars

\* the server of app_json.cpp
JsonNext ==
    \/ SignalHandler /\ UNCHANGED << cvars, pvars, tvars, bvars, avars, xvars, lvars, kvars >>
    \/ AcceptReturns /\ UNCHANGED << cvars, pvars, tvars, bvars, avars, xvars, lvars, kvars >>
    \/ AcceptFails /\ UNCHANGED << cvars, pvars, tvars, bvars, avars, xvars, lvars, kvars >>
    \/ JsonMainStep /\ UNCHANGED << cvars, pvars, tvars, bvars, avars, xvars, lvars, kvars >>
    \/ StatsStep /\ UNCHANGED << cvars, pvars, tvars, bvars, avars, xvars, lvars, kvars >>
    \/ \E w \in Workers : JsonWorkerStep(w) /\ UNCHANGED << cvars, pvars, tvars, bvars, avars, lvars, kvars >>

JsonSpec == Init /\ [][JsonNext]_vars

\* app.c with one client more than are already being served, and no more
\* arriving: the earlier clients have been accepted (lines 346-399) and have
\* registered (lines 178-184), the last one has been accepted and counted
\* and its thread has yet to take a step; the ceiling of app.c:18, 2000, is
\* far from reached
PeakClients == MaxAccepts + 1
PeakWorkers == 1..PeakClients
LateClientInit ==
    /\ servidor_rodando = 1
    /\ clientes_conectados = PeakClients
    /\ total_connections = PeakClients - 1
    /\ total_messages = 0
    /\ active_threads = PeakClients - 1
    /\ peak_connections = PeakClients - 1
    /\ errors = 0
    /\ stats_mutex = Free
    /\ client_counter = PeakClients
    /\ apc = "a_loop"
    /\ spc = "s_loop"
    /\ wpc = [w \in PeakWorkers |->
                 IF w = PeakClients THEN "w_register" ELSE "w_loop"]
    /\ messages_from_client = [w \in PeakWorkers |-> 0]
    /\ partial = [w \in PeakWorkers |-> FALSE]
    /\ responses = [w \in PeakWorkers |-> 0]
    /\ listening = TRUE
    /\ accepted = PeakClients
    /\ accept_errors = 0
    /\ rejected = 0
    /\ spawned = PeakClients
    /\ completed = 0
    /\ abnormal_ends = 0

PeakNext ==
    \/ SignalHandler /\ UNCHANGED << cvars, pvars, tvars, bvars, avars, xvars, lvars, kvars >>
    \/ MainStep /\ UNCHANGED << cvars, pvars, tvars, bvars, avars, xvars, lvars, kvars >>
    \/ StatsStep /\ UNCHANGED << cvars, pvars, tvars, bvars, avars, xvars, lvars, kvars >>
    \/ \E w \in PeakWorkers : WorkerStep(w) /\ UNCHANGED << cvars, pvars, tvars, bvars, avars, xvars, lvars, kvars >>

PeakSpecInit == LateClientInit /\ CodecIdle /\ ProtoIdle /\ TextIdle /\ BatchIdle /\ PaceIdle /\ AtomicInit /\ LockIdle /\ HandleIdle

PeakSpec == PeakSpecInit /\ [][PeakNext]_vars

\* the framing codec on its own: one frame written and read back, or one
\* raw frame read
CodecNext ==
    \/ CodecWrite /\ UNCHANGED << svars, pvars, tvars, bvars, avars, xvars, lvars, kvars >>
    \/ CodecRead /\ UNCHANGED << svars, pvars, tvars, bvars, avars, xvars, lvars, kvars >>
    \/ CodecWorker /\ UNCHANGED << svars, pvars, tvars, bvars, avars, xvars, lvars, kvars >>

CodecSpecInit == ServerInit /\ CodecInit /\ ProtoIdle /\ TextIdle /\ BatchIdle /\ PaceIdle /\ AtomicInit /\ LockIdle /\ HandleIdle

CodecSpec == CodecSpecInit /\ [][CodecNext]_vars

\* one request handled by a worker
ProtoNext ==
    \/ ProtoReceive /\ UNCHANGED << svars, cvars, tvars, bvars, avars, xvars, lvars, kvars >>
    \/ ProtoParse /\ UNCHANGED << svars, cvars, tvars, bvars, avars, xvars, lvars, kvars >>
    \/ ProtoRespond /\ UNCHANGED << svars, cvars, tvars, bvars, avars, xvars, lvars, kvars >>
    \/ ProtoNextMessage /\ UNCHANGED << svars, cvars, tvars, bvars, avars, xvars, lvars, kvars >>

ProtoSpecInit == ServerInit /\ CodecIdle /\ ProtoInit /\ TextIdle /\ BatchIdle /\ PaceIdle /\ AtomicInit /\ LockIdle /\ HandleIdle

ProtoSpec == ProtoSpecInit /\ [][ProtoNext]_vars

\* one request handled by a worker of app_simple.cpp
SimpleNext ==
    \/ SimpleReceive /\ UNCHANGED << svars, cvars, tvars, bvars, avars, xvars, lvars, kvars >>
    \/ SimpleParse /\ UNCHANGED << svars, cvars, tvars, bvars, avars, xvars, lvars, kvars >>
    \/ SimpleRespond /\ UNCHANGED << svars, cvars, tvars, bvars, avars, xvars, lvars, kvars >>

SimpleSpec == ProtoSpecInit /\ [][SimpleNext]_vars

\* one plain-text command handled by a worker of app_cjson.c
TextNext ==
    \/ TextReceive /\ UNCHANGED << svars, cvars, pvars, bvars, avars, xvars, lvars, kvars >>
    \/ TextRespond /\ UNCHANGED << svars, cvars, pvars, bvars, avars, xvars, lvars, kvars >>

TextSpecInit == ServerInit /\ CodecIdle /\ ProtoIdle /\ TextInit /\ BatchIdle /\ PaceIdle /\ AtomicInit /\ LockIdle /\ HandleIdle

TextSpec == TextSpecInit /\ [][TextNext]_vars

\* the accounting of one plain-text worker of app_cjson.c
BatchNext ==
    \/ BatchReceive /\ UNCHANGED << svars, cvars, pvars, tvars, avars, xvars, lvars, kvars >>
    \/ BatchLoopEnds /\ UNCHANGED << svars, cvars, pvars, tvars, avars, xvars, lvars, kvars >>
    \/ BatchSend /\ UNCHANGED << svars, cvars, pvars, tvars, avars, xvars, lvars, kvars >>
    \/ BatchCount /\ UNCHANGED << svars, cvars, pvars, tvars, avars, xvars, lvars, kvars >>
    \/ BatchExit /\ UNCHANGED << svars, cvars, pvars, tvars, avars, xvars, lvars, kvars >>

BatchSpecInit ==
    ServerInit /\ CodecIdle /\ ProtoIdle /\ TextIdle /\ BatchInit /\ PaceIdle /\ AtomicInit /\ LockIdle /\ HandleIdle

BatchSpec == BatchSpecInit /\ [][BatchNext]_vars

\* the pauses of one connection of app.c
PaceNext ==
    \/ PaceRespond /\ UNCHANGED << svars, cvars, pvars, tvars, bvars, xvars, lvars, kvars >>
    \/ PacePause /\ UNCHANGED << svars, cvars, pvars, tvars, bvars, xvars, lvars, kvars >>

PaceSpecInit ==
    ServerInit /\ CodecIdle /\ ProtoIdle /\ TextIdle /\ BatchIdle /\ PaceInit /\ AtomicInit /\ LockIdle /\ HandleIdle

PaceSpec == PaceSpecInit /\ [][PaceNext]_vars

\* the lock operations of the threads of app.c and of app_cjson.c
LockNext ==
    \/ \E t \in LockThreads : LockBegin(t) /\ UNCHANGED << svars, cvars, pvars, tvars, bvars, avars, xvars, kvars >>
    \/ \E t \in LockThreads : LockAcquire(t) /\ UNCHANGED << svars, cvars, pvars, tvars, bvars, avars, xvars, kvars >>
    \/ \E t \in LockThreads : LockRelease(t) /\ UNCHANGED << svars, cvars, pvars, tvars, bvars, avars, xvars, kvars >>

LockSpecInit ==
    ServerInit /\ CodecIdle /\ ProtoIdle /\ TextIdle /\ BatchIdle /\ PaceIdle /\ AtomicInit /\ LockInit /\ HandleIdle

LockSpec == LockSpecInit /\ [][LockNext]_vars

\* the framing of app_old.cpp and of app_configurable.cpp
FrameNext ==
    \/ OldRead /\ UNCHANGED << svars, pvars, tvars, bvars, avars, xvars, lvars, kvars >>
    \/ CppRead /\ UNCHANGED << svars, pvars, tvars, bvars, avars, xvars, lvars, kvars >>
    \/ CppRespond /\ UNCHANGED << svars, pvars, tvars, bvars, avars, xvars, lvars, kvars >>

FrameSpecInit ==
    ServerInit /\ FrameInit /\ ProtoIdle /\ TextIdle /\ BatchIdle /\ PaceIdle /\ AtomicInit /\ LockIdle /\ HandleIdle

FrameSpec == FrameSpecInit /\ [][FrameNext]_vars

\* the accept loop of the second main of app_cjson.c
HandleNext ==
    \/ SignalHandler /\ UNCHANGED << cvars, pvars, tvars, bvars, avars, xvars, lvars, kvars >>
    \/ HandleLoop /\ UNCHANGED << svars, cvars, pvars, tvars, bvars, avars, xvars, lvars >>
    \/ HandleAccept /\ UNCHANGED << svars, cvars, pvars, tvars, bvars, avars, xvars, lvars >>
    \/ HandleConnectionLimit /\ UNCHANGED << svars, cvars, pvars, tvars, bvars, avars, xvars, lvars >>
    \/ HandleThreadLimit /\ UNCHANGED << svars, cvars, pvars, tvars, bvars, avars, xvars, lvars >>
    \/ HandleAlloc /\ UNCHANGED << svars, cvars, pvars, tvars, bvars, avars, xvars, lvars >>
    \/ HandleCreate /\ UNCHANGED << svars, cvars, pvars, tvars, bvars, avars, xvars, lvars >>
    \/ HandleDetach /\ UNCHANGED << svars, cvars, pvars, tvars, bvars, avars, xvars, lvars >>
    \/ HandleReset /\ UNCHANGED << svars, cvars, pvars, tvars, bvars, avars, xvars, lvars >>

HandleSpecInit ==
    ServerInit /\ CodecIdle /\ ProtoIdle /\ TextIdle /\ BatchIdle /\ PaceIdle /\ AtomicInit /\ LockIdle /\ HandleInit

HandleSpec == HandleSpecInit /\ [][HandleNext]_vars

(***************************************************************************)
(* Properties of the server: the counters, the ceiling and the shutdown.   *)
(***************************************************************************)
\* the workers that have registered and not yet done their exit bookkeeping
Registered ==
    { w \in Workers : wpc[w] \in {"w_peak_test", "w_peak_store", "w_loop",
                                  "w_recv", "w_build", "w_send_size",
                                  "w_send_body",
                                  "w_uncount", "w_exit_stats"} }

\* C1: in every reachable state the active-worker counter equals the number
\* of workers that have registered (total connections) minus the number that
\* have completed their exit bookkeeping, which is the number of workers
\* between the two; it is never negative.
C1_ActiveIsRegisteredMinusCompleted ==
    /\ active_threads = total_connections - completed
    /\ active_threads = Cardinality(Registered)
    /\ active_threads >= 0

\* one worker has come and gone while another is still registered
C1_Witness ==
    /\ total_connections = 2
    /\ completed = 1
    /\ active_threads = 1

\* C2: whenever no registration is in progress (every worker that began its
\* registration step has finished it: total connections and active workers
\* incremented, peak reconsidered), peak_connections >= active_threads.
C2_PeakCoversActive ==
    (stats_mutex = Free /\ total_connections > 0)
        => peak_connections >= active_threads

\* C3: whenever the acceptor takes its decision on an accepted socket while
\* the active-worker counter equals the ceiling, the socket is rejected
\* (closed at once), no worker is spawned and active workers is unchanged.
C3_CeilingOnActiveWorkers ==
    [][(/\ apc = "a_check"
        /\ stats_mutex = Free
        /\ active_threads = MAX_CONNECTIONS
        /\ apc' # apc)
          => (/\ apc' = "a_loop"
              /\ rejected' = rejected + 1
              /\ spawned' = spawned
              /\ active_threads' = active_threads)]_vars

\* C4: no worker is created in a state where the shutdown flag is already set.
C4_NoSpawnAfterShutdown ==
    [][servidor_rodando = 0 => spawned' = spawned]_vars

\* C5: once the shutdown flag is set, the acceptor eventually leaves its
\* accept loop, whether or not another client connects.
C5_AcceptorLeavesLoop ==
    (servidor_rodando = 0) ~> (apc \in {"m_join", "m_close", "m_print", "exited"})

\* C6: the process never exits while a worker has written the length prefix
\* of a response and not yet its payload.
C6_NoPartialResponseAtExit ==
    ~ProcessAlive => \A w \in Workers : ~(wpc[w] = "w_send_body" /\ partial[w])

(***************************************************************************)
(* Properties of the framing codec.                                        *)
(***************************************************************************)
\* the longest payload receive_json_message takes into a buffer of
\* BUFFER_SIZE bytes: the maximum message size
MaxMessageSize == BUFFER_SIZE - 1
CodecReturned == cx_pc \in {"returned", "closed", "process"}

\* C7: with the maximum message size BUFFER_SIZE - 1, a frame whose declared
\* length is 0 or greater than the maximum is rejected: receive_json_message
\* returns its error having read the 4-byte prefix only, nothing is stored
\* in the buffer, and the worker closes the connection; every declared length
\* L with 0 < L <= maximum whose payload arrives is accepted with that
\* payload.
C7_LengthValidation ==
    (CodecReturned /\ Len(cx_stream) >= 4) =>
        LET size == ntohl(SubSeq(cx_stream, 1, 4))
            outside == U32IsZero(size) \/ U32Gt(size, MaxMessageSize)
        IN  /\ outside =>
                /\ cx_result.ret = -1
                /\ cx_result.consumed = 4
                /\ cx_result.buffer = << >>
                /\ cx_pc # "process"
            /\ (~outside /\ Len(cx_stream) >= 4 + U32Value(size)) =>
                /\ cx_result.ret = U32Value(size)
                /\ cx_result.consumed = 4 + U32Value(size)
                /\ SubSeq(cx_result.buffer, 1, U32Value(size))
                     = SubSeq(cx_stream, 5, 4 + U32Value(size))
                /\ cx_pc # "closed"

\* a frame that declares one byte more than the maximum, all of its payload
\* on the stream, has been rejected and the connection closed
C7_Witness ==
    /\ cx_pc = "closed"
    /\ cx_stream = htonl(MaxMessageSize + 1) \o Fill(MaxMessageSize + 1, 66)
    /\ cx_result.ret = -1

\* C8: for every byte payload p with 0 < len(p) <= maximum message size,
\* zero bytes included, reading the frame that writing p produced yields p:
\* the same length and the same bytes.
C8_FramingRoundTrip ==
    (/\ CodecReturned
     /\ Len(cx_payload) > 0
     /\ Len(cx_payload) <= MaxMessageSize)
        => /\ cx_result.ret = Len(cx_payload)
           /\ SubSeq(cx_result.buffer, 1, Len(cx_payload)) = cx_payload

(***************************************************************************)
(* Properties of the request handling.                                     *)
(***************************************************************************)
KEY_client_timestamp == << "c", "l", "i", "e", "n", "t", "_", "t", "i", "m", "e", "s", "t", "a", "m", "p" >>

\* text has a member name whose value is written valueText
HasMember(text, name, valueText) ==
    LET member == JsonString(name) \o << ":" >> \o valueText
    IN  \E i \in 1..(Len(text) - Len(member) + 1) :
            /\ SubSeq(text, i, i + Len(member) - 1) = member
            /\ CharAt(text, i + Len(member)) \in {",", "}"}

\* C9: a PING request with timestamp t, its type member named type or tipo,
\* yields a response whose data member is "PONG" and whose client_timestamp
\* member is t.
C9_PingRoundTrip ==
    (/\ pr_pc = "sent"
     /\ pr_req.tipo = STR_PING
     /\ pr_req.timestamp >= 0)
        => /\ HasMember(pr_response, KEY_data, JsonString(STR_PONG))
           /\ HasMember(pr_response, KEY_client_timestamp,
                        FormatInt(pr_req.timestamp))

\* C10: an ECHO request with data s, sent under the member name tipo that
\* extract_json_value looks for, yields a response that carries exactly s
\* where create_json_response puts its data.
C10_EchoIdentity ==
    (/\ pr_pc = "sent"
     /\ pr_req.key = KEY_tipo
     /\ pr_req.tipo = STR_ECHO
     /\ pr_req.data # NoData)
        => strstr(pr_response, FMT_4 \o pr_req.data \o FMT_5, 1) > 0

(***************************************************************************)
(* Properties of the shutdown flag, the statistics and the exchange.       *)
(***************************************************************************)
\* C11: the shutdown flag only goes from not requested (1) to requested (0):
\* no step of the acceptor, a worker, the statistics thread or the signal
\* handler sets it back, so once requested it stays requested.
C11_ShutdownFlagStaysSet ==
    [][servidor_rodando = 0 => servidor_rodando' = 0]_vars

\* shutdown was requested and the process then ran to its end, a worker
\* having done its exit bookkeeping
C11_Witness ==
    /\ servidor_rodando = 0
    /\ apc = "exited"
    /\ completed > 0

\* C12: a statistics snapshot of the reporter never falls between a
\* worker's registration and the reconsideration of the peak for it: when
\* print_stats reads the counters, no worker has incremented active_threads
\* with update_peak_connections still to run.
C12_SnapshotSeesWholeRegistration ==
    [][(spc = "s_print" /\ spc' = "s_loop")
          => \A w \in Workers : wpc[w] # "c_peak_test"]_vars

\* C13: every access to a ServerStats field is atomic or made while holding
\* stats_mutex: the step in which a worker formats its response, reading
\* server_stats.total_messages with a plain load, is taken with the mutex
\* held by that worker.
C13_StatsReadUnderLock ==
    [][\A w \in Workers :
          (wpc[w] = "w_build" /\ wpc'[w] # "w_build")
             => stats_mutex = WorkerTid(w)]_vars

\* C14: within one connection the exchange is strictly first in, first out:
\* whenever a worker is about to read its next message, every message it has
\* read has been answered in full, and while it answers message k exactly
\* the k - 1 earlier messages have been answered.
C14_FifoWithinConnection ==
    \A w \in Workers :
       /\ wpc[w] \in {"w_loop", "w_recv"}
             => /\ responses[w] = messages_from_client[w]
                /\ ~partial[w]
       /\ wpc[w] \in {"w_build", "w_send_size", "w_send_body"}
             => responses[w] = messages_from_client[w] - 1

\* a worker that has answered two messages in turn and waits for a third
C14_Witness ==
    \E w \in Workers :
       /\ wpc[w] = "w_recv"
       /\ messages_from_client[w] = 2
       /\ responses[w] = 2

(***************************************************************************)
(* Properties of the dispatch and of the fields of a response.            *)
(***************************************************************************)
KEY_message_id == << "m", "e", "s", "s", "a", "g", "e", "_", "i", "d" >>
\* a letter in upper case, for the letters the requests use
UpperCase(c) ==
    CASE c = "p" -> "P" [] c = "i" -> "I" [] c = "n" -> "N" [] c = "g" -> "G"
      [] OTHER -> c
ToUpper(s) == [i \in 1..Len(s) |-> UpperCase(s[i])]

\* C15: the dispatch does not look at letter case: a request whose type,
\* sent under the member name tipo, is PING in any letter case is answered
\* with "PONG" where create_json_response puts its data.
C15_DispatchIgnoresCase ==
    (/\ pr_pc = "sent"
     /\ pr_req.key = KEY_tipo
     /\ ToUpper(pr_req.tipo) = STR_PING)
        => strstr(pr_response, FMT_4 \o STR_PONG \o FMT_5, 1) > 0

\* C17: the response to the k-th message of a connection has message_id k,
\* and its client_timestamp is the timestamp of the request, 0 when the
\* request has none.
C17_MessageIdAndTimestamp ==
    (/\ pr_pc = "sent"
     /\ pr_req.timestamp # BadTimestamp)
        => /\ HasMember(pr_response, KEY_message_id, FormatInt(pr_count))
           /\ HasMember(pr_response, KEY_client_timestamp,
                 FormatInt(IF pr_req.timestamp = NoTimestamp THEN 0
                           ELSE pr_req.timestamp))

\* the second message of a connection answered, its request with no
\* timestamp
C17_Witness ==
    /\ pr_pc = "sent"
    /\ pr_count = 2
    /\ pr_req.timestamp = NoTimestamp

\* C18: total connections, total messages, the peak and the error count
\* never decrease: no step of any thread leaves one of them smaller than it
\* was.
C18_CountersNeverDecrease ==
    [][/\ total_connections' >= total_connections
       /\ total_messages' >= total_messages
       /\ peak_connections' >= peak_connections
       /\ errors' >= errors]_vars

\* s ends with suffix
EndsWith(s, suffix) ==
    /\ Len(s) >= Len(suffix)
    /\ SubSeq(s, Len(s) - Len(suffix) + 1, Len(s)) = suffix

\* C16: the plain-text dispatch: a command "PING-" + d is answered with
\* exactly "PONG-" + d; a command that starts with "PING" but not "PING-" is
\* answered with a PONG that ends with the server timestamp; every other
\* command is answered with an ACK.
C16_PlainTextDispatch ==
    tx_pc = "sent" =>
       IF Prefix(tx_command, Len(STR_PING_DASH)) = STR_PING_DASH
          THEN tx_resposta =
                  STR_PONG_DASH \o SubSeq(tx_command, 6, Len(tx_command))
       ELSE IF Prefix(tx_command, Len(STR_PING)) = STR_PING
          THEN /\ Prefix(tx_resposta, Len(STR_PONG)) = STR_PONG
               /\ EndsWith(tx_resposta, << "-" >> \o FormatInt(tx_clock))
       ELSE Prefix(tx_resposta, Len(STR_ACK)) = STR_ACK

\* C19: a message that fails to decode, its timestamp member not being an
\* integer, is dropped with the connection left open: the step that handles
\* it adds one to the error counter, writes no response and takes the worker
\* back to receiving.
C19_DecodeFailureDropsMessage ==
    [][(/\ pr_pc = "parse"
        /\ pr_req.timestamp = BadTimestamp
        /\ pr_pc' # "parse")
          => /\ pr_errors' = pr_errors + 1
             /\ pr_response' = << >>
             /\ pr_pc' = "recv"]_vars

\* C20: every abnormal end of a connection (a framing error, a receive
\* timeout, a failed or short write) adds one to the error counter: once
\* every worker that was started has finished, the error counter covers the
\* abnormal ends, and it exceeds them by no more than the failures of accept
\* that main counts.
C20_AbnormalEndCountsError ==
    (\A w \in Workers : wpc[w] \in {"idle", "w_done"})
        => /\ errors >= abnormal_ends
           /\ errors <= abnormal_ends + accept_errors

(***************************************************************************)
(* Properties of the ends of a connection and of the accounting.           *)
(***************************************************************************)
\* C21: an orderly end of stream closes the connection and leaves the error
\* counter unchanged: the step in which recv() reports that the peer closed
\* takes the worker straight to its close, and neither that step nor the
\* exit bookkeeping after it touches the error counter.
C21_OrderlyEndLeavesErrors ==
    [][\A w \in Workers :
          /\ (/\ wpc[w] = "c_recv"
              /\ wpc'[w] # "c_recv"
              /\ total_messages' = total_messages
              /\ abnormal_ends' = abnormal_ends)
                => /\ wpc'[w] = "w_uncount"
                   /\ errors' = errors
          /\ (wpc[w] \in {"w_uncount", "w_exit_stats"} /\ wpc'[w] # wpc[w])
                => errors' = errors]_vars

\* a worker whose client closed, on its way out with no error counted and
\* no shutdown requested
C21_Witness ==
    \E w \in Workers :
       /\ wpc[w] = "w_exit_stats"
       /\ servidor_rodando = 1
       /\ abnormal_ends = 0
       /\ errors = 0

RECURSIVE SumUpTo(_, _)
\* f[1] + ... + f[n]
SumUpTo(f, n) == IF n = 0 THEN 0 ELSE f[n] + SumUpTo(f, n - 1)

\* C22: the total-messages counter is incremented only after a response has
\* been written successfully: at every moment it is at most the number of
\* responses written in full so far.
C22_CountedAfterResponse ==
    total_messages <= SumUpTo(responses, MaxAccepts)

\* C23: with the batched accounting a worker that handled m messages, none
\* of its sends failing, has added exactly m to total_messages once it has
\* left.
C23_BatchedCountIsExact ==
    (bt_pc = "done" /\ ~bt_send_failed) => bt_total = bt_messages

\* C24: the pause is non-decreasing in load: none at or below the low
\* message-count threshold while the connection is not a long one, and the
\* pause after a message is at least the pause after the message before it.
C24_PauseGrowsWithLoad ==
    pa_pc = "respond" =>
       /\ (pa_messages <= LOW_MESSAGES /\ pa_duration <= LONG_DURATION)
             => pa_pause = 0
       /\ pa_pause >= pa_previous

(***************************************************************************)
(* C25: rejecting a connection at the ceiling changes nothing but the      *)
(* rejected socket.  The step that rejects leaves total connections,       *)
(* active workers, the connected-clients counter, the peak, total          *)
(* messages, the error counter and the client-id counter as they were and  *)
(* starts no worker, and no worker is ever created for a rejected socket:  *)
(* every accepted socket is rejected or handed to a worker, never both.    *)
(***************************************************************************)
C25_RejectFrame ==
    [][rejected' = rejected + 1 =>
          /\ UNCHANGED << stats, clientes_conectados, client_counter, wpc,
                          spawned, messages_from_client, responses >>
          /\ apc' = "a_loop"]_vars

C25_NoWorkerForRejected == spawned + rejected <= accepted

C25_RejectChangesNothing == [](C25_NoWorkerForRejected) /\ C25_RejectFrame

C25_Witness ==
    /\ rejected = 1
    /\ spawned = 1
    /\ accepted = 2
    /\ apc = "a_loop"

(***************************************************************************)
(* C26: an accept error while shutdown is not requested increments the     *)
(* error counter by one and the acceptor retries accept; an accept error   *)
(* observed after shutdown is requested leaves the error counter unchanged *)
(* and ends the accept loop.  The acceptor goes from the failed accept     *)
(* straight back to the head of the loop only when it found the flag       *)
(* cleared, and then errors is unchanged and the loop ends at its next     *)
(* test; when it found the flag set it goes on to count, and the counting  *)
(* step adds exactly one and returns to the head of the loop.              *)
(***************************************************************************)
C26_AcceptErrorCounted ==
    [][/\ (apc = "a_err" /\ apc' # "a_err") =>
             /\ errors' = errors
             /\ apc' = IF servidor_rodando # 0 THEN "a_err_count" ELSE "a_loop"
       /\ (apc = "a_err_count" /\ apc' # "a_err_count") =>
             /\ errors' = errors + 1
             /\ apc' = "a_loop"
       /\ (apc = "a_loop" /\ apc' # "a_loop") =>
             apc' = IF servidor_rodando # 0 THEN "a_accept" ELSE "m_join"]_vars

(***************************************************************************)
(* C27: every worker, whatever path ends its loop, closes its stream       *)
(* exactly once and decrements active-workers and the connected-clients    *)
(* counter exactly once each, and does nothing for that connection         *)
(* afterwards.  A worker that has left its loop (stream closed) never      *)
(* returns to it; from there its only steps are the decrement of the       *)
(* connected-clients counter by one, then the decrement of active-workers  *)
(* by one, then the end of the thread; after the loop it receives nothing, *)
(* sends nothing and counts no message or error.  The connected-clients    *)
(* counter is at every moment the number of connections counted by the     *)
(* acceptor whose worker has not yet taken its own off.                    *)
(***************************************************************************)
C27_Closing == {"w_uncount", "w_exit_stats", "w_done"}

C27_Counted ==
    Cardinality({w \in Workers : wpc[w] \notin {"idle", "w_exit_stats", "w_done"}})
       + (IF apc \in {"a_malloc", "a_create", "a_undo"} THEN 1 ELSE 0)

C27_ExitSteps ==
    [][\A w \in Workers :
          /\ wpc[w] \in C27_Closing => wpc'[w] \in C27_Closing
          /\ (wpc[w] \in C27_Closing /\ wpc'[w] # wpc[w]) =>
                /\ messages_from_client'[w] = messages_from_client[w]
                /\ responses'[w] = responses[w]
                /\ partial'[w] = partial[w]
                /\ total_messages' = total_messages
                /\ total_connections' = total_connections
                /\ errors' = errors
                /\ peak_connections' = peak_connections
          /\ (wpc[w] = "w_uncount" /\ wpc'[w] # wpc[w]) =>
                /\ wpc'[w] = "w_exit_stats"
                /\ clientes_conectados' = clientes_conectados - 1
                /\ active_threads' = active_threads
          /\ (wpc[w] = "w_exit_stats" /\ wpc'[w] # wpc[w]) =>
                /\ wpc'[w] = "w_done"
                /\ active_threads' = active_threads - 1
                /\ clientes_conectados' = clientes_conectados
          /\ wpc[w] = "w_done" => wpc'[w] = "w_done"]_vars

C27_WorkerExitsOnce ==
    [](clientes_conectados = C27_Counted) /\ C27_ExitSteps

\* both workers have ended, one at the loop test after shutdown was requested
\* or at a failed receive, and every counter is back at zero
C27_Witness ==
    /\ \A w \in Workers : wpc[w] = "w_done"
    /\ completed = MaxAccepts
    /\ clientes_conectados = 0
    /\ active_threads = 0

(***************************************************************************)
(* C28: a worker tests the shutdown flag at the top of each receive        *)
(* iteration and nowhere else.  At the loop test the worker goes on to     *)
(* receive exactly when the flag is still set and otherwise leaves the     *)
(* loop, without reading another message; while it is building or sending  *)
(* a response only a failed send takes it out of the loop, never the flag, *)
(* and a response being sent when the flag is cleared is still completed   *)
(* and counted to the connection.                                          *)
(***************************************************************************)
C28_Responding == {"w_build", "w_send_size", "w_send_body"}

C28_FlagTestedAtLoopTop ==
    [][\A w \in Workers :
          /\ (wpc[w] = "w_loop" /\ wpc'[w] # "w_loop") =>
                /\ wpc'[w] = IF servidor_rodando # 0 THEN "w_recv" ELSE "w_uncount"
                /\ messages_from_client'[w] = messages_from_client[w]
          /\ (wpc[w] \in C28_Responding /\ wpc'[w] = "w_uncount") =>
                abnormal_ends' = abnormal_ends + 1
          /\ (wpc[w] \in C28_Responding /\ wpc'[w] # wpc[w]) =>
                wpc'[w] \in C28_Responding \cup {"w_loop", "w_uncount"}
          /\ (wpc[w] = "w_send_body" /\ wpc'[w] = "w_loop") =>
                responses'[w] = responses[w] + 1]_vars

\* the flag is cleared while a worker is in the middle of a response: the
\* length prefix is out and the payload is still to be sent
C28_Witness ==
    \E w \in Workers :
       /\ servidor_rodando = 0
       /\ wpc[w] = "w_send_body"
       /\ partial[w]
       /\ responses[w] = 0

(***************************************************************************)
(* C29: after shutdown is requested the process waits for its workers to   *)
(* drain before exiting: main does not reach process exit while a worker   *)
(* is still between its registration and its exit bookkeeping              *)
(* (active-workers > 0), unless the bounded grace period has expired.      *)
(* main of app_configurable.cpp has no grace period, so there the          *)
(* exception never applies: when the process has exited, active-workers is *)
(* zero.                                                                   *)
(***************************************************************************)
C29_ExitWaitsForWorkers == apc = "exited" => active_threads = 0

(***************************************************************************)
(* C30: under fair scheduling, with the idle timeout bounding every        *)
(* blocking read and write, every worker that exists when the shutdown     *)
(* flag is set eventually reaches its end (stream closed, both counters    *)
(* decremented, thread returned), whether its client keeps sending, goes   *)
(* silent or disconnects.                                                  *)
(***************************************************************************)
C30_Exists(w) == wpc[w] \notin {"idle", "w_done"}

C31_Pending(w) == w = client_counter /\ apc \in {"a_malloc", "a_create", "a_undo"}

C31_Released(w) ==
    \/ wpc[w] \in {"w_exit_stats", "w_done"}
    \/ wpc[w] = "idle" /\ ~C31_Pending(w)

C31_CounterWithinCeiling ==
    /\ clientes_conectados \in 0..MAX_CONNECTIONS
    /\ clientes_conectados =
          Cardinality({w \in 1..client_counter : ~C31_Released(w)})

C31_UndoTakesOne ==
    [][(apc = "a_undo" /\ apc' # "a_undo") =>
          /\ clientes_conectados' = clientes_conectados - 1
          /\ apc' = "a_loop"
          /\ wpc' = wpc]_vars

C31_AcceptorCountBalanced == [](C31_CounterWithinCeiling) /\ C31_UndoTakesOne

\* the first connection was counted and taken off again after its thread
\* could not be started; the second is counted and being served
C31_Witness ==
    /\ client_counter = 2
    /\ spawned = 1
    /\ wpc[1] = "idle"
    /\ wpc[2] # "idle"
    /\ clientes_conectados = MAX_CONNECTIONS
    /\ apc = "a_loop"

(***************************************************************************)
(* C32: where each worker registers itself after being spawned and the     *)
(* acceptor only reads the counter (app_json.cpp, app_old.cpp), the number *)
(* of registered active connections never exceeds the limit the acceptor   *)
(* checks, for every interleaving of accepts and worker registrations.     *)
(***************************************************************************)
C32_RegisteredWithinLimit ==
    /\ clientes_conectados <= MAX_CONNECTIONS
    /\ active_threads <= MAX_CONNECTIONS

(***************************************************************************)
(* C33: the statistics mutex and the connection mutex are never held at    *)
(* the same time by one thread, every acquisition is followed by a release *)
(* on every path (a thread that has finished a lock sequence holds         *)
(* nothing, and a held mutex is always one its holder is about to          *)
(* release), and no reachable state has a set of threads waiting on each   *)
(* other's locks: whenever a thread waits for a mutex, the thread holding  *)
(* it is not itself waiting.                                               *)
(***************************************************************************)
C33_Holds(t, m) == mx_holder[m] = t

C33_Waits(t) ==
    /\ lk_todo[t] # << >>
    /\ Head(lk_todo[t])[1] = "lock"
    /\ mx_holder[Head(lk_todo[t])[2]] # NoThread

C33_NoNestingNoDeadlock ==
    \A t \in LockThreads :
       /\ ~(C33_Holds(t, "stats_mutex") /\ C33_Holds(t, "connection_mutex"))
       /\ lk_todo[t] = << >> => \A m \in Mutexes : ~C33_Holds(t, m)
       /\ \A m \in Mutexes :
             C33_Holds(t, m) => Head(lk_todo[t]) = Unlock(m)
       /\ C33_Waits(t) => ~C33_Waits(mx_holder[Head(lk_todo[t])[2]])

\* a worker holds stats_mutex, main holds connection_mutex, and the
\* statistics thread waits for stats_mutex
C33_Witness ==
    /\ \E w \in Workers : C33_Holds(<< "tratar_cliente", w >>, "stats_mutex")
    /\ C33_Holds(<< "main", 0 >>, "connection_mutex")
    /\ C33_Waits(<< "thread_stats", 0 >>)

(***************************************************************************)
(* C34: for every declared length that receive_json_message accepts,       *)
(* every index it writes in its fixed receive buffer, the payload bytes    *)
(* and the terminating zero byte at index equal to the length, is          *)
(* strictly less than BUFFER_SIZE.  What the reader stored starts at index *)
(* 0, so the indexes written are 0 .. Len(buffer) - 1.                     *)
(***************************************************************************)
C34_WritesWithinBuffer ==
    \A i \in 1..Len(cx_result.buffer) : i - 1 < BUFFER_SIZE

(***************************************************************************)
(* C35: every frame the server writes is one that its own reader would     *)
(* accept: for every accepted request, the declared length L of the        *)
(* response satisfies 0 < L <= the maximum message size and equals the     *)
(* number of payload bytes that follow.  The reader is the length test of  *)
(* the program that wrote the frame.                                       *)
(***************************************************************************)
C35_DeclaredLength == ntohl(SubSeq(cx_stream, 1, 4))

C35_OwnReaderAccepts ==
    cx_pc = "responded" =>
        /\ ~cpp_LengthRejected(C35_DeclaredLength)
        /\ U32Value(C35_DeclaredLength) = Len(cx_stream) - 4

(***************************************************************************)
(* C36: in the C++ variants that keep two message counters, the            *)
(* lock-protected server_stats.total_messages never exceeds the atomic     *)
(* total_messages in any reachable state, and the two are equal once all   *)
(* workers have exited if no message was dropped and no response write     *)
(* failed.                                                                 *)
(***************************************************************************)
C36_AllExited == \A w \in Workers : wpc[w] \in {"idle", "w_done"}

\* no message was dropped and no response write failed: no error was counted
\* and every message received was answered in full
C36_NothingLost ==
    /\ errors = 0
    /\ \A w \in Workers : responses[w] = messages_from_client[w]

C36_BetweenIncrements == \E w \in Workers : wpc[w] = "p_count_atomic"

C37_Started(w) == wpc[w] # "idle"

C37_Starts(w) == wpc'[w] \in {"w_register", "j_register"} /\ wpc'[w] # wpc[w]

C37_StartsWithFreshId ==
    \A w \in Workers :
       C37_Starts(w) =>
          /\ ~C37_Started(w)
          /\ w = client_counter
          /\ \A v \in Workers : C37_Started(v) => v < w

C37_IdsUniqueAndIncreasing ==
    [][C37_StartsWithFreshId /\ client_counter' >= client_counter]_vars

C37_Witness ==
    /\ ~C37_Started(1)
    /\ C37_Started(2)
    /\ client_counter = 2

(***************************************************************************)
(* C38: in the accept loop that tracks thread_count (incremented per       *)
(* spawned worker, reset to 0 when it reaches MAX_THREADS - 10),           *)
(* thread_count is below MAX_THREADS at every evaluation of the            *)
(* thread-limit check, and the handle array is never indexed at or beyond  *)
(* MAX_THREADS.                                                            *)
(***************************************************************************)
C38_ThreadCountBelowLimit ==
    /\ kpc = "k_limit" => thread_count < MAX_THREAD_HANDLES
    /\ \A i \in threads : i >= 0 /\ i < MAX_THREAD_HANDLES

C38_Witness ==
    /\ kpc = "k_limit"
    /\ thread_count = 0
    /\ (MAX_THREAD_HANDLES - 11) \in threads

====
